---- MODULE Spec2Model ----
(***************************************************************************)
(* Attrition Model Service (attrition_framework.py): the Label Codec, the  *)
(* feature column derivation and the load / train / predict operations of  *)
(* AttritionModel and AttritionController, as a state machine over the     *)
(* service's DataFrame (self.df) and the strategy's fitted classifier.     *)
(***************************************************************************)
EXTENDS Integers, Sequences, FiniteSets, TLC

VARIABLES df, fitted, result, stdout, session_state, page, calls

vars == <<df, fitted, result, stdout, session_state, page, calls>>

\* the state of the hosting process: the survey page's st.session_state, what
\* the page shows, and the predict calls in flight
host == <<session_state, page, calls>>

(***************************************************************************)
(* Text.  A Python str is a sequence of one-character strings.             *)
(***************************************************************************)
LowerChars ==
    << "a","b","c","d","e","f","g","h","i","j","k","l","m",
       "n","o","p","q","r","s","t","u","v","w","x","y","z" >>

UpperChars ==
    << "A","B","C","D","E","F","G","H","I","J","K","L","M",
       "N","O","P","Q","R","S","T","U","V","W","X","Y","Z" >>

Whitespace == {" ", "\t", "\n"}

LowerSet == {LowerChars[i] : i \in 1..Len(LowerChars)}

UpperSet == {UpperChars[i] : i \in 1..Len(UpperChars)}

\* str.upper() and str.lower() of one character
UpperOf == [c \in LowerSet |->
               UpperChars[CHOOSE i \in 1..Len(LowerChars) : LowerChars[i] = c]]

LowerOf == [c \in UpperSet |->
               LowerChars[CHOOSE i \in 1..Len(UpperChars) : UpperChars[i] = c]]

IsCased(c) == c \in LowerSet \/ c \in UpperSet

ToUpper(c) == IF c \in LowerSet THEN UpperOf[c] ELSE c

ToLower(c) == IF c \in UpperSet THEN LowerOf[c] ELSE c

RECURSIVE LStrip(_)
LStrip(s) ==
    IF s # << >> /\ Head(s) \in Whitespace THEN LStrip(Tail(s)) ELSE s

RECURSIVE RStrip(_)
RStrip(s) ==
    IF s # << >> /\ s[Len(s)] \in Whitespace
    THEN RStrip(SubSeq(s, 1, Len(s) - 1))
    ELSE s

\* str.strip(): leading and trailing whitespace removed
Strip(s) == RStrip(LStrip(s))

\* str.title(): a cased character is upper-cased when the character before
\* it is not cased (or there is none) and lower-cased otherwise
Title(s) ==
    [i \in 1..Len(s) |->
        IF i > 1 /\ IsCased(s[i - 1]) THEN ToLower(s[i]) ELSE ToUpper(s[i])]

(***************************************************************************)
(* Cells of a DataFrame: a missing value, a number or a text.              *)
(***************************************************************************)
NaN == [kind |-> "nan", num |-> 0, str |-> << >>]

Num(n) == [kind |-> "num", num |-> n, str |-> << >>]

Str(s) == [kind |-> "str", num |-> 0, str |-> s]

IsNa(c) == c.kind = "nan"

DigitChars == << "0","1","2","3","4","5","6","7","8","9" >>

RECURSIVE Digits(_)
\* str(n) of an integer n >= 0
Digits(n) ==
    IF n < 10 THEN << DigitChars[n + 1] >>
    ELSE Append(Digits(n \div 10), DigitChars[(n % 10) + 1])

\* astype(str): a missing value becomes the text "nan"
AsStr(c) ==
    IF c.kind = "str" THEN c.str
    ELSE IF c.kind = "nan" THEN << "n","a","n" >>
    ELSE Digits(c.num)

(***************************************************************************)
(* The Label Codec: verdict_map and reverse_verdict_map.                   *)
(***************************************************************************)
WillLeave == << "W","i","l","l"," ","L","e","a","v","e" >>

LikelyToLeave ==
    << "L","i","k","e","l","y"," ","T","o"," ","L","e","a","v","e" >>

NotDecided == << "N","o","t"," ","D","e","c","i","d","e","d" >>

LessLikelyToLeave ==
    << "L","e","s","s"," ","L","i","k","e","l","y"," ","T","o"," ",
       "L","e","a","v","e" >>

WontLeave == << "W","o","n","t"," ","L","e","a","v","e" >>

Unknown == << "U","n","k","n","o","w","n" >>

\* verdict_map with the class id of one text mistyped
verdict_map_typo ==
    { <<WillLeave, 1>>, <<LikelyToLeave, 2>>, <<NotDecided, 3>>,
      <<LessLikelyToLeave, 2>>, <<WontLeave, 5>> }

\* a dict is a set of <<key, value>> pairs with distinct keys
verdict_map ==
    { <<WillLeave, 1>>, <<LikelyToLeave, 2>>, <<NotDecided, 3>>,
      <<LessLikelyToLeave, 4>>, <<WontLeave, 5>> }

reverse_verdict_map == { <<p[2], p[1]>> : p \in verdict_map }

DictHas(d, k) == \E p \in d : p[1] = k

DictGet(d, k) == (CHOOSE p \in d : p[1] = k)[2]

\* NormalizeLabel without the title() call
NormalizeNoTitle(c) == Strip(AsStr(c))

\* NormalizeLabel without the strip() call
NormalizeNoStrip(c) == Title(AsStr(c))

\* Series.str.strip().str.title() of astype(str)
NormalizeLabel(c) == Title(Strip(AsStr(c)))

\* Series.map(dict): a key the dict lacks maps to a missing value
MapVerdict(text) ==
    IF DictHas(verdict_map, text) THEN Num(DictGet(verdict_map, text)) ELSE NaN

\* decode by subscript, reverse_verdict_map[pred_num]: an id the dict lacks
\* raises KeyError instead of giving the default
DecodeStrict(pred_num) ==
    IF DictHas(reverse_verdict_map, pred_num)
    THEN DictGet(reverse_verdict_map, pred_num)
    ELSE << "KeyError" >>

\* reverse_verdict_map.get(pred_num, "Unknown")
DecodeVerdict(pred_num) ==
    IF DictHas(reverse_verdict_map, pred_num)
    THEN DictGet(reverse_verdict_map, pred_num)
    ELSE Unknown

(***************************************************************************)
(* DataFrames: ordered column names and rows of cells, cell j of a row     *)
(* belonging to column j.  self.df = None is NoDf.                         *)
(***************************************************************************)
NoDf == [isNone |-> TRUE, columns |-> << >>, rows |-> << >>]

Frame(cols, rows) == [isNone |-> FALSE, columns |-> cols, rows |-> rows]

HasCol(d, name) == \E j \in 1..Len(d.columns) : d.columns[j] = name

ColIdx(d, name) == CHOOSE j \in 1..Len(d.columns) : d.columns[j] = name

Column(d, name) == [i \in 1..Len(d.rows) |-> d.rows[i][ColIdx(d, name)]]

RECURSIVE SelectIdx(_, _, _)
\* the indices i in from..n with keep[i], ascending
SelectIdx(keep, from, n) ==
    IF from > n THEN << >>
    ELSE IF keep[from] THEN <<from>> \o SelectIdx(keep, from + 1, n)
    ELSE SelectIdx(keep, from + 1, n)

\* DataFrame.drop(columns=names, errors="ignore"): the other columns, in order
DropColumns(d, names) ==
    LET keep == [j \in 1..Len(d.columns) |-> d.columns[j] \notin names]
        idx  == SelectIdx(keep, 1, Len(d.columns))
    IN  Frame([k \in 1..Len(idx) |-> d.columns[idx[k]]],
              [i \in 1..Len(d.rows) |->
                  [k \in 1..Len(idx) |-> d.rows[i][idx[k]]]])

\* df[name] = values: replaces the column, or appends it as the last one
SetColumn(d, name, values) ==
    IF HasCol(d, name)
    THEN Frame(d.columns,
               [i \in 1..Len(d.rows) |->
                   [d.rows[i] EXCEPT ![ColIdx(d, name)] = values[i]]])
    ELSE Frame(Append(d.columns, name),
               [i \in 1..Len(d.rows) |-> Append(d.rows[i], values[i])])

\* dropna(subset=["Final_Verdict_Num"]): only a missing class id drops a row
DropNaLabelOnly(d) ==
    LET j0   == CHOOSE j \in 1..Len(d.columns) : d.columns[j] = "Final_Verdict_Num"
        keep == [i \in 1..Len(d.rows) |-> d.rows[i][j0].kind # "nan"]
        idx  == SelectIdx(keep, 1, Len(d.rows))
    IN  Frame(d.columns, [k \in 1..Len(idx) |-> d.rows[idx[k]]])

RowHasNa(row) == \E j \in 1..Len(row) : IsNa(row[j])

\* DataFrame.dropna(): the rows without any missing value, in order
DropNa(d) ==
    LET keep == [i \in 1..Len(d.rows) |-> ~RowHasNa(d.rows[i])]
        idx  == SelectIdx(keep, 1, Len(d.rows))
    IN  Frame(d.columns, [k \in 1..Len(idx) |-> d.rows[idx[k]]])

(***************************************************************************)
(* AttritionModel: pure parts of load_and_clean_data, train and predict.   *)
(***************************************************************************)
\* DroppedColumns without the identifier column
DroppedColumnsNoId == {"Final_Verdict", "Final_Verdict_Num"}

DroppedColumns == {"Final_Verdict", "Final_Verdict_Num", "emp_id"}

\* AttritionModel.get_column_names on a DataFrame that is not None
get_column_names(d) == DropColumns(d, DroppedColumns).columns

\* lines 111-119: the frame read from the file, with Final_Verdict
\* normalized and Final_Verdict_Num mapped from it
MappedFrame(file) ==
    LET raw  == Column(file, "Final_Verdict")
        d1   == SetColumn(file, "Final_Verdict",
                    [i \in 1..Len(file.rows) |-> Str(NormalizeLabel(raw[i]))])
        text == Column(d1, "Final_Verdict")
    IN  SetColumn(d1, "Final_Verdict_Num",
            [i \in 1..Len(d1.rows) |-> MapVerdict(text[i].str)])

\* line 122: df["Final_Verdict_Num"].isna().any()
HasUnmapped(d) ==
    LET num == Column(d, "Final_Verdict_Num")
    IN  \E i \in 1..Len(d.rows) : IsNa(num[i])

\* UnmappedCounts reporting only the first unmapped value
UnmappedFirstOnly(d) ==
    LET num  == Column(d, "Final_Verdict_Num")
        text == Column(d, "Final_Verdict")
        bad  == {i \in 1..Len(d.rows) : IsNa(num[i])}
        i0   == CHOOSE i \in bad : \A k \in bad : i <= k
    IN  { <<text[i0].str, Cardinality({k \in bad : text[k] = text[i0]})>> }

\* lines 125-127: value_counts() of Final_Verdict over the unmapped rows,
\* as the set of <<value, count>> pairs
UnmappedCounts(d) ==
    LET num  == Column(d, "Final_Verdict_Num")
        text == Column(d, "Final_Verdict")
        bad  == {i \in 1..Len(d.rows) : IsNa(num[i])}
    IN  { <<text[i].str, Cardinality({k \in bad : text[k] = text[i]})>> :
            i \in bad }

\* what an exception carries: its type and the data values in its message
Raised(type, detail) == [err |-> type, detail |-> detail, val |-> << >>]

Returned(v) == [err |-> "", detail |-> {}, val |-> v]

Quiet == [unmapped |-> {}, accuracy |-> << >>, errors |-> {}]

(***************************************************************************)
(* The strategy's classifier.  fit() is a deterministic function of the    *)
(* training data (random_state=42) whose result is not computed here: a    *)
(* fitted classifier is some function from feature vectors to the classes  *)
(* seen in training, together with the data it was fitted on.              *)
(***************************************************************************)
PredValues == {1, 5}

Vectors(n) == [1..n -> PredValues]

NotFitted ==
    [isFitted |-> FALSE, features |-> << >>, classes |-> {},
     fn |-> << >>, X |-> << >>, y |-> << >>]

ClassesOf(y) == {y[i].num : i \in 1..Len(y)}

ClassCount(y, c) == Cardinality({i \in 1..Len(y) : y[i].num = c})

\* NTest rounding down: floor(0.2 * n) test rows
NTestFloor(n) == n \div 5

\* train_test_split(test_size=0.2): ceil(0.2 * n) test rows, the rest train
NTest(n) == (n + 4) \div 5

NTrain(n) == n - NTest(n)

\* train_test_split(..., stratify=y) and fit(): the conditions under which
\* they raise ValueError
SplitFails(X, y) ==
    LET n == Len(y)
    IN  \/ \E i \in 1..n : IsNa(y[i])
        \/ n = 0
        \/ NTrain(n) = 0
        \/ \E c \in ClassesOf(y) : ClassCount(y, c) < 2
        \/ NTrain(n) < Cardinality(ClassesOf(y))
        \/ NTest(n) < Cardinality(ClassesOf(y))
        \/ Len(X.columns) = 0

\* AttritionModel.predict_numeric: int(self.model_strategy.predict(a)[0])
predict_numeric(fit, vector) == fit.fn[vector]

\* AttritionModel.predict_textual
predict_textual(fit, vector) ==
    LET pred_num == predict_numeric(fit, vector)
    IN  DecodeVerdict(pred_num)

Min(S) == CHOOSE x \in S : \A z \in S : x <= z

\* PredictOutcome with a strategy that answers before it is fitted
PredictOutcomeUnfitted(d, fit, input_dict) ==
    IF d.isNone THEN Raised("AttributeError", {})
    ELSE
      LET columns == get_column_names(d)
          missing == {j \in 1..Len(columns) : columns[j] \notin DOMAIN input_dict}
          input_array == [j \in 1..Len(columns) |-> input_dict[columns[j]]]
      IN  IF missing # {} THEN Raised("KeyError", {columns[Min(missing)]})
          ELSE IF ~fit.isFitted THEN Returned(Unknown)
          ELSE IF Len(columns) # Len(fit.features) THEN Raised("ValueError", {})
          ELSE Returned(predict_textual(fit, input_array))

\* AttritionController.predict_from_dict on the service state (d, fit)
PredictOutcome(d, fit, input_dict) ==
    IF d.isNone THEN Raised("AttributeError", {})
    ELSE
      LET columns == get_column_names(d)
          missing == {j \in 1..Len(columns) : columns[j] \notin DOMAIN input_dict}
          input_array == [j \in 1..Len(columns) |-> input_dict[columns[j]]]
      IN  IF missing # {} THEN Raised("KeyError", {columns[Min(missing)]})
          ELSE IF ~fit.isFitted THEN Raised("NotFittedError", {})
          ELSE IF Len(columns) # Len(fit.features) THEN Raised("ValueError", {})
          ELSE Returned(predict_textual(fit, input_array))

(***************************************************************************)
(* Inputs: the record sets the file at data_path may hold when it is read, *)
(* and the input dictionaries handed to predict_from_dict.                 *)
(***************************************************************************)
RowsPerClass == 3

RawWillLeave ==
    << << " ","w","i","l","l"," ","l","e","a","v","e" >>,
       << "W","I","L","L"," ","L","E","A","V","E"," " >>,
       WillLeave >>

RawWontLeave ==
    << << "w","o","n","t"," ","l","e","a","v","e","\n" >>,
       << "\t","W","o","n","t"," ","L","E","A","V","E" >>,
       WontLeave >>

Maybe == << "M","a","y","b","e" >>

MaybeLower == << "m","a","y","b","e"," " >>

Perhaps == << "p","e","r","h","a","p","s" >>

\* rows alternate between the classes Will Leave (1) and Wont Leave (5)
SurveyRows ==
    [i \in 1..(2 * RowsPerClass) |->
        [emp_id |-> Num(100 + i),
         Q1 |-> Num(IF i % 2 = 1 THEN 1 + (i % 3) ELSE 5 - (i % 2)),
         Q2 |-> Num(IF i % 2 = 1 THEN 2 ELSE 4 + (i % 4) \div 2),
         Final_Verdict |->
            Str(IF i % 2 = 1 THEN RawWillLeave[(i % 3) + 1]
                             ELSE RawWontLeave[(i % 3) + 1])]]

ExtraRow(id, q1, q2, label) ==
    [emp_id |-> id, Q1 |-> q1, Q2 |-> q2, Final_Verdict |-> label]

MkFile(cols, recs) ==
    Frame(cols, [i \in 1..Len(recs) |->
                    [j \in 1..Len(cols) |-> recs[i][cols[j]]]])

WideColumns == << "emp_id", "Q1", "Q2", "Final_Verdict" >>

FileSurvey == MkFile(WideColumns, SurveyRows)

FileReordered == MkFile(<< "emp_id", "Q2", "Q1", "Final_Verdict" >>, SurveyRows)

FileNarrow == MkFile(<< "Q1", "Final_Verdict", "emp_id" >>, SurveyRows)

FileUnmapped ==
    MkFile(WideColumns,
           SurveyRows \o
           << ExtraRow(Num(201), Num(3), Num(3), Str(Maybe)),
              ExtraRow(Num(202), Num(3), NaN, Str(MaybeLower)),
              ExtraRow(Num(203), Num(2), Num(3), Str(Perhaps)),
              ExtraRow(Num(204), Num(2), Num(2), NaN) >>)

FileOneBad ==
    MkFile(<< "emp_id", "Q2", "Final_Verdict" >>,
           << ExtraRow(Num(301), Num(3), Num(3), Str(Maybe)) >> \o SurveyRows)

FileMissing ==
    MkFile(WideColumns,
           << ExtraRow(Num(401), Num(3), NaN, Str(WillLeave)) >> \o SurveyRows \o
           << ExtraRow(NaN, Num(5), Num(5), Str(WontLeave)) >>)

FileSparse == MkFile(WideColumns, SubSeq(SurveyRows, 1, 3))

FileEmpty == MkFile(WideColumns, << >>)

RecordSets ==
    { FileSurvey, FileReordered, FileNarrow, FileUnmapped, FileOneBad,
      FileMissing, FileSparse, FileEmpty }

InputKeys == {"Q1", "Q2", "Q9"}

InputDicts == UNION { [K -> PredValues] : K \in SUBSET InputKeys }

(***************************************************************************)
(* The hosting process before anything ran: an empty st.session_state, an  *)
(* empty page and no predict call in flight.                               *)
(***************************************************************************)
TotalQuestions == 3

QuestionKeys == 0..(TotalQuestions - 1)

\* st.session_state: which of current_q / responses are set, their values,
\* and the value under each key question_i ("absent": the key is not there,
\* "none": None, else the label chosen)
NoSession ==
    [present |-> {}, current_q |-> 0, responses |-> << >>,
     question |-> [i \in QuestionKeys |-> "absent"]]

\* what the last script run left on the page: the radio of question `radio`
\* (-1: no radio), the Start Over button, the completion message, an
\* uncaught exception, and whether st.rerun() asked for another run
NoPage ==
    [radio |-> -1, button |-> FALSE, finished |-> FALSE, error |-> FALSE,
     pending |-> FALSE]

MaxCallers == 2

Callers == 1..MaxCallers

\* one predict_from_dict call: where it is, its argument, the columns it
\* read and what it returned
IdleCall ==
    [pc |-> "idle", input_dict |-> << >>, columns |-> << >>,
     outcome |-> [err |-> "", detail |-> {}, val |-> << >>]]

NoCalls == [t \in Callers |-> IdleCall]

(***************************************************************************)
(* The service: state after AttritionModel.__init__, and its operations.   *)
(***************************************************************************)
Init ==
    /\ df = NoDf
    /\ fitted = NotFitted
    /\ result = [op |-> "init", arg |-> << >>] @@ Returned(<< >>)
    /\ stdout = Quiet
    /\ session_state = NoSession
    /\ page = NoPage
    /\ calls = NoCalls

Call(op, arg, outcome) == [op |-> op, arg |-> arg] @@ outcome

\* AttritionModel.load_and_clean_data, read_csv returning the record set file
\* (result.arg keeps the record set read, for the properties to refer to)
load_and_clean_data(file) ==
    /\ UNCHANGED host
    /\ LET d == MappedFrame(file)
       IN  /\ IF HasUnmapped(d)
              THEN /\ df' = d
                   /\ stdout' = [Quiet EXCEPT !.unmapped = UnmappedCounts(d)]
                   /\ result' = Call("load", file, Raised("ValueError", {}))
              ELSE /\ df' = DropNa(d)
                   /\ stdout' = Quiet
                   /\ result' = Call("load", file, Returned(<< >>))
           /\ UNCHANGED fitted

\* train fitting on whatever rows there are when the stratified split fails
train_lenient ==
    /\ UNCHANGED host
    /\ IF df.isNone
       THEN /\ result' = Call("train", << >>, Raised("AttributeError", {}))
            /\ stdout' = Quiet
            /\ UNCHANGED <<df, fitted>>
       ELSE
         LET X == DropColumns(df, DroppedColumns)
             y == Column(df, "Final_Verdict_Num")
         IN  IF Len(y) = 0 \/ Len(X.columns) = 0
             THEN /\ result' = Call("train", << >>, Raised("ValueError", {}))
                  /\ stdout' = Quiet
                  /\ UNCHANGED <<df, fitted>>
             ELSE
               \E f \in [Vectors(Len(X.columns)) -> ClassesOf(y)] :
                  /\ fitted' = [isFitted |-> TRUE, features |-> X.columns,
                                classes |-> ClassesOf(y), fn |-> f,
                                X |-> X, y |-> y]
                  /\ stdout' = [Quiet EXCEPT !.accuracy = <<0, NTest(Len(y))>>]
                  /\ result' = Call("train", << >>, Returned(<< >>))
                  /\ UNCHANGED df

\* AttritionModel.train
train ==
    /\ UNCHANGED host
    /\ IF df.isNone
       THEN /\ result' = Call("train", << >>, Raised("AttributeError", {}))
            /\ stdout' = Quiet
            /\ UNCHANGED <<df, fitted>>
       ELSE
         LET X == DropColumns(df, DroppedColumns)
             y == Column(df, "Final_Verdict_Num")
         IN  IF SplitFails(X, y)
             THEN /\ result' = Call("train", << >>, Raised("ValueError", {}))
                  /\ stdout' = Quiet
                  /\ UNCHANGED <<df, fitted>>
             ELSE
               \E f \in [Vectors(Len(X.columns)) -> ClassesOf(y)] :
               \E correct \in 0..NTest(Len(y)) :
                  /\ (fitted.isFitted /\ fitted.X = X /\ fitted.y = y)
                        => f = fitted.fn
                  /\ fitted' = [isFitted |-> TRUE, features |-> X.columns,
                                classes |-> ClassesOf(y), fn |-> f,
                                X |-> X, y |-> y]
                  /\ stdout' = [Quiet EXCEPT
                                   !.accuracy = <<correct, NTest(Len(y))>>]
                  /\ result' = Call("train", << >>, Returned(<< >>))
                  /\ UNCHANGED df

\* predict_from_dict discarding the fitted classifier when the call fails
predict_from_dict_discarding(input_dict) ==
    /\ UNCHANGED host
    /\ LET outcome == PredictOutcome(df, fitted, input_dict)
       IN  /\ result' = Call("predict", input_dict, outcome)
           /\ stdout' = Quiet
           /\ fitted' = IF outcome.err = "" THEN fitted ELSE NotFitted
           /\ UNCHANGED df

\* AttritionController.predict_from_dict
predict_from_dict(input_dict) ==
    /\ UNCHANGED host
    /\ /\ result' = Call("predict", input_dict, PredictOutcome(df, fitted, input_dict))
       /\ stdout' = Quiet
       /\ UNCHANGED <<df, fitted>>

\* get_features dropping the columns in place (drop(..., inplace=True))
get_features_inplace ==
    /\ UNCHANGED host
    /\ /\ result' = Call("get_features", << >>,
                         IF df.isNone THEN Raised("AttributeError", {})
                         ELSE Returned(get_column_names(df)))
       /\ stdout' = Quiet
       /\ df' = IF df.isNone THEN df ELSE DropColumns(df, DroppedColumns)
       /\ UNCHANGED fitted

\* AttritionController.get_features
get_features ==
    /\ UNCHANGED host
    /\ /\ result' = Call("get_features", << >>,
                         IF df.isNone THEN Raised("AttributeError", {})
                         ELSE Returned(get_column_names(df)))
       /\ stdout' = Quiet
       /\ UNCHANGED <<df, fitted>>

Next ==
    \/ \E file \in RecordSets : load_and_clean_data(file)
    \/ train
    \/ \E input_dict \in InputDicts : predict_from_dict(input_dict)
    \/ get_features

Spec == Init /\ [][Next]_vars

(***************************************************************************)
(* The Label Codec on its own: load_and_clean_data applied by a new        *)
(* service to every batch of at most MaxBatch labels drawn from RawLabels. *)
(***************************************************************************)
MaxBatch == 3

RawLabels ==
    { Str(RawWillLeave[1]), Str(RawWillLeave[2]), Str(RawWontLeave[1]),
      Str(RawWontLeave[2]), Str(LikelyToLeave), Str(NotDecided),
      Str(<< "l","e","s","s"," ","L","I","K","E","L","Y"," ","t","o"," ",
             "l","e","a","v","e"," "," " >>),
      Str(Maybe), Str(MaybeLower), Str(Perhaps), NaN,
      Str(<< "W","i","l","l"," "," ","L","e","a","v","e" >>),
      Str(<< "W","o","n","'","t"," ","L","e","a","v","e" >>) }

LabelBatches == UNION { [1..n -> RawLabels] : n \in 0..MaxBatch }

BatchFile(batch) ==
    Frame(<< "emp_id", "Q1", "Final_Verdict" >>,
          [i \in 1..Len(batch) |-> << Num(500 + i), Num(3), batch[i] >>])

NextCodec ==
    /\ result.op = "init"
    /\ \E batch \in LabelBatches : load_and_clean_data(BatchFile(batch))

SpecCodec == Init /\ [][NextCodec]_vars

(***************************************************************************)
(* The pipeline of one service: one load_and_clean_data of a record set,   *)
(* then train and get_features in any order.  The record sets are those of *)
(* RecordSets, a header-only export with further columns, a survey with    *)
(* scores outside 1..5, and sets holding all five verdict classes with     *)
(* perClass rows each and extra more rows of the first class.              *)
(***************************************************************************)
MaxPerClass == 5

MaxExtra == 4

ClassFile(perClass, extra) ==
    Frame(<< "emp_id", "Q1", "Final_Verdict" >>,
          [i \in 1..(5 * perClass + extra) |->
              LET c == IF i <= 5 * perClass THEN ((i - 1) % 5) + 1 ELSE 1
              IN  << Num(600 + i), Num(c), Str(DecodeVerdict(c)) >>])

ClassFiles ==
    { ClassFile(perClass, extra) :
        perClass \in 1..MaxPerClass, extra \in 0..MaxExtra }

FileHeaders ==
    Frame(<< "srno", "emp_id", "dept", "Q1", "Final_Verdict", "Q2" >>, << >>)

FileOutOfRange ==
    MkFile(WideColumns,
           SurveyRows \o
           << ExtraRow(Num(701), Num(7), Num(3), Str(WillLeave)),
              ExtraRow(Num(702), Num(4), Num(0), Str(WontLeave)) >>)

PipelineFiles == RecordSets \cup ClassFiles \cup {FileHeaders, FileOutOfRange}

NextPipeline ==
    \/ /\ result.op = "init"
       /\ \E file \in PipelineFiles : load_and_clean_data(file)
    \/ train
    \/ get_features

SpecPipeline == Init /\ [][NextPipeline]_vars

(***************************************************************************)
(* The factory and the facade: ModelFactory.get_model resolving a strategy *)
(* name, and AttritionController.__init__ building a service from a name   *)
(* and a record set.                                                       *)
(***************************************************************************)
NameLower == << "r", "a", "n", "d", "o", "m", "f", "o", "r", "e", "s", "t" >>

NameCamel == << "R", "a", "n", "d", "o", "m", "F", "o", "r", "e", "s", "t" >>

NameUpper == << "R", "A", "N", "D", "O", "M", "F", "O", "R", "E", "S", "T" >>

NameMixed == << "r", "A", "N", "D", "O", "M", "f", "O", "R", "E", "S", "T" >>

NameSpaced == << "r", "a", "n", "d", "o", "m", " ", "f", "o", "r", "e", "s", "t" >>

NamePadded == << "r", "a", "n", "d", "o", "m", "f", "o", "r", "e", "s", "t", " " >>

NameShort == << "r", "a", "n", "d", "o", "m", "f", "o", "r", "e", "s" >>

NameSvm == << "s", "v", "m" >>

NameXgb == << "X", "G", "B", "o", "o", "s", "t" >>

NameEmpty == << >>

ModelNames ==
    { NameLower, NameCamel, NameUpper, NameMixed, NameSpaced, NamePadded,
      NameShort, NameSvm, NameXgb, NameEmpty }

\* str.lower()
Lower(name) == [i \in 1..Len(name) |-> ToLower(name[i])]

\* the comparison of get_model without lower()
IsRandomForestExact(name) == name = NameLower

\* name.lower() == "randomforest"
IsRandomForest(name) == Lower(name) = NameLower

\* ModelFactory.get_model: a new RandomForestStrategy, or ValueError naming
\* the requested name
get_model(name) ==
    /\ UNCHANGED host
    /\ /\ result' = Call("get_model", name,
                         IF IsRandomForest(name) THEN Returned(NotFitted)
                         ELSE Raised("ValueError", {name}))
       /\ stdout' = Quiet
       /\ UNCHANGED <<df, fitted>>

\* the outcome of load_and_clean_data then train inside the constructor: an
\* exception in either leaves no controller
BuildService(model_name, file) ==
    LET arg == [model_name |-> model_name, file |-> file]
        d   == MappedFrame(file)
        c   == DropNa(d)
        X   == DropColumns(c, DroppedColumns)
        y   == Column(c, "Final_Verdict_Num")
    IN  IF HasUnmapped(d)
        THEN /\ result' = Call("construct", arg, Raised("ValueError", {}))
             /\ stdout' = [Quiet EXCEPT !.unmapped = UnmappedCounts(d)]
             /\ UNCHANGED <<df, fitted>>
        ELSE IF SplitFails(X, y)
        THEN /\ result' = Call("construct", arg, Raised("ValueError", {}))
             /\ stdout' = Quiet
             /\ UNCHANGED <<df, fitted>>
        ELSE
          \E f \in [Vectors(Len(X.columns)) -> ClassesOf(y)] :
          \E correct \in 0..NTest(Len(y)) :
             /\ df' = c
             /\ fitted' = [isFitted |-> TRUE, features |-> X.columns,
                           classes |-> ClassesOf(y), fn |-> f,
                           X |-> X, y |-> y]
             /\ stdout' = [Quiet EXCEPT
                              !.accuracy = <<correct, NTest(Len(y))>>]
             /\ result' = Call("construct", arg, Returned(<< >>))

\* a constructor that reads and checks the record set before it resolves the
\* strategy name
AttritionController_init_late(model_name, file) ==
    /\ UNCHANGED host
    /\ LET arg == [model_name |-> model_name, file |-> file]
           d   == MappedFrame(file)
           c   == DropNa(d)
       IN  IF HasUnmapped(d)
              \/ SplitFails(DropColumns(c, DroppedColumns),
                            Column(c, "Final_Verdict_Num"))
              \/ IsRandomForest(model_name)
           THEN BuildService(model_name, file)
           ELSE /\ result' = Call("construct", arg,
                                  Raised("ValueError", {model_name}))
                /\ stdout' = Quiet
                /\ UNCHANGED <<df, fitted>>

\* AttritionController.__init__(csv_path, model_name): get_model first, then
\* AttritionModel(...), load_and_clean_data() and train()
AttritionController_init(model_name, file) ==
    /\ UNCHANGED host
    /\ IF IsRandomForest(model_name)
       THEN BuildService(model_name, file)
       ELSE /\ result' = Call("construct",
                              [model_name |-> model_name, file |-> file],
                              Raised("ValueError", {model_name}))
            /\ stdout' = Quiet
            /\ UNCHANGED <<df, fitted>>

\* a program that asks the factory for strategies and, while it has no
\* controller, tries to construct one
NextFactory ==
    \/ /\ df.isNone
       /\ \E model_name \in ModelNames :
          \E file \in RecordSets : AttritionController_init(model_name, file)
    \/ \E name \in ModelNames : get_model(name)

SpecFactory == Init /\ [][NextFactory]_vars

(***************************************************************************)
(* The analytics chain (dashboard_backend.py, dashboard_app.py): question  *)
(* columns, grouped means and alerts over a record set the caller holds.   *)
(* The record set is the DataFrame df; nothing here uses the classifier.   *)
(***************************************************************************)
\* the characters of the record sets in code point order
CodeOrder == << " " >> \o DigitChars \o UpperChars \o << "_" >> \o LowerChars

CharRank ==
    [c \in {CodeOrder[i] : i \in 1..Len(CodeOrder)} |->
        CHOOSE i \in 1..Len(CodeOrder) : CodeOrder[i] = c]

\* a < b for two str: the first differing character decides, a proper prefix
\* is smaller
StrLess(a, b) ==
    \E k \in 1..(Len(b)) :
        /\ \A i \in 1..(k - 1) : i <= Len(a) /\ a[i] = b[i]
        /\ \/ k = Len(a) + 1
           \/ k <= Len(a) /\ CharRank[a[k]] < CharRank[b[k]]

RECURSIVE SortedStrs(_)
\* sorted(S) for a set of str
SortedStrs(S) ==
    IF S = {} THEN << >>
    ELSE LET least == CHOOSE a \in S : \A b \in S \ {a} : StrLess(a, b)
         IN  << least >> \o SortedStrs(S \ {least})

RECURSIVE Gcd(_, _)
Gcd(a, b) == IF b = 0 THEN a ELSE Gcd(b, a % b)

\* a float that is the quotient of two integers, in lowest terms; NaN for 0/0
Ratio(num, den) ==
    IF den = 0 THEN [nan |-> TRUE, num |-> 0, den |-> 0]
    ELSE [nan |-> FALSE, num |-> num \div Gcd(num, den),
          den |-> den \div Gcd(num, den)]

RECURSIVE SumCells(_, _)
SumCells(cells, n) == IF n = 0 THEN 0 ELSE cells[n].num + SumCells(cells, n - 1)

\* Series.mean(): the mean of the values that are not missing, NaN if none
MeanOf(cells) ==
    LET idx == SelectIdx([i \in 1..Len(cells) |-> cells[i].kind = "num"],
                         1, Len(cells))
        nums == [k \in 1..Len(idx) |-> cells[idx[k]]]
    IN  Ratio(SumCells(nums, Len(nums)), Len(nums))

\* score < threshold and score > threshold for a threshold given in tenths;
\* every comparison with NaN is False
ScoreBelow(score, tenths) == ~score.nan /\ score.num * 10 < tenths * score.den

ScoreAbove(score, tenths) == ~score.nan /\ score.num * 10 > tenths * score.den

\* f"{score:.2f}": the nearest hundredth (a tie needs a group of 8 rows or
\* more, beyond the record sets here), "nan" for NaN
FormatScore(score) ==
    IF score.nan THEN << "n", "a", "n" >>
    ELSE LET h == (200 * score.num + score.den) \div (2 * score.den)
         IN  Digits(h \div 100) \o << "." >> \o
             << DigitChars[((h \div 10) % 10) + 1], DigitChars[(h % 10) + 1] >>

\* df.groupby(by): the group keys are the values of the column that are not
\* missing, in sorted order
GroupKeys(d, by) ==
    LET cells == Column(d, by)
    IN  SortedStrs({cells[i].str : i \in {k \in 1..Len(cells) : cells[k].kind = "str"}})

\* the values of column col in the rows of group key
GroupCells(d, by, key, col) ==
    LET keys == Column(d, by)
        vals == Column(d, col)
        idx  == SelectIdx([i \in 1..Len(keys) |-> keys[i] = Str(key)], 1, Len(keys))
    IN  [k \in 1..Len(idx) |-> vals[idx[k]]]

\* df.groupby(by)[col].mean() as a list of (group, mean) in the order
\* .items() yields them
grouped_mean(d, by, col) ==
    LET keys == GroupKeys(d, by)
    IN  [k \in 1..Len(keys) |->
            [group |-> keys[k], score |-> MeanOf(GroupCells(d, by, keys[k], col))]]

\* the column names that are turned into text, as str
NameChars ==
    [n \in {"dept", "position", "location"} |->
        CASE n = "dept" -> << "d","e","p","t" >>
          [] n = "position" -> << "p","o","s","i","t","i","o","n" >>
          [] n = "location" -> << "l","o","c","a","t","i","o","n" >>]

\* alert_columns, in dict order; thresholds in tenths
alert_columns ==
    << [col |-> "12_Month_Commitment", type |-> "low", threshold |-> 30,
        label |-> "12-Month Commitment"],
       [col |-> "Job_Search_Thoughts", type |-> "high", threshold |-> 35,
        label |-> "Job Search Thoughts"],
       [col |-> "Growth_Opportunities", type |-> "low", threshold |-> 30,
        label |-> "Growth Opportunities"],
       [col |-> "Manager_Trust", type |-> "low", threshold |-> 30,
        label |-> "Trust in Manager"],
       [col |-> "Feedback_Received", type |-> "low", threshold |-> 30,
        label |-> "Feedback Received"] >>

\* generate_visualizations' group_by_options
group_by_options == << "location", "position", "dept" >>

\* master_params in the order of the bar charts
master_params_as_bars == << "location", "position", "dept" >>

\* generate_alerts' master_params
master_params == << "dept", "position", "location" >>

\* an alert text by its parts: two alert texts are equal exactly when their
\* parts are
AlertText(icon, group_by, group, direction, label, score) ==
    [icon |-> icon, dimension |-> Title(NameChars[group_by]), group |-> group,
     direction |-> direction, label |-> label, score |-> FormatScore(score)]

RECURSIVE Concat(_, _)
\* seqs[1] \o ... \o seqs[n]
Concat(seqs, n) == IF n = 0 THEN << >> ELSE Concat(seqs, n - 1) \o seqs[n]

\* high rules fire on a mean equal to the threshold too (>=)
RuleFiresInclusive(meta, score) ==
    \/ meta.type = "low" /\ ScoreBelow(score, meta.threshold)
    \/ meta.type = "high" /\ ~ScoreBelow(score, meta.threshold) /\ ~score.nan

\* lines 178 / 182: the rule's condition on a group's mean
RuleFires(meta, score) ==
    \/ meta.type = "low" /\ ScoreBelow(score, meta.threshold)
    \/ meta.type = "high" /\ ScoreAbove(score, meta.threshold)

\* the alerts of one rule in one grouping: lines 175-185
RuleAlerts(d, group_by, meta) ==
    IF ~HasCol(d, meta.col) THEN << >>
    ELSE
      LET means == grouped_mean(d, group_by, meta.col)
          idx   == SelectIdx([k \in 1..Len(means) |-> RuleFires(meta, means[k].score)],
                             1, Len(means))
      IN  [k \in 1..Len(idx) |->
              AlertText("U+26A0", group_by, means[idx[k]].group,
                        IF meta.type = "low" THEN "LOW" ELSE "HIGH",
                        meta.label, means[idx[k]].score)]

\* the loops over the groupings and the rules
AlertLoop(d) ==
    Concat([g \in 1..Len(master_params) |->
              Concat([r \in 1..Len(alert_columns) |->
                        RuleAlerts(d, master_params[g], alert_columns[r])],
                     Len(alert_columns))],
           Len(master_params))

\* get_question_columns' exclude list
exclude == {"emp_id", "srno", "Final_Verdict", "dept", "location", "position"}

\* pd.api.types.is_numeric_dtype(df[col]): a column of numbers, with or
\* without missing values; a column of text or of nothing but NULL is object
is_numeric_dtype(d, col) ==
    LET cells == Column(d, col)
    IN  /\ \A i \in 1..Len(cells) : cells[i].kind \in {"num", "nan"}
        /\ \E i \in 1..Len(cells) : cells[i].kind = "num"

\* get_question_columns without the dtype test
get_question_columns_any_dtype(d) == DropColumns(d, exclude).columns

\* get_question_columns(df)
get_question_columns(d) ==
    LET keep == [j \in 1..Len(d.columns) |->
                    d.columns[j] \notin exclude /\ is_numeric_dtype(d, d.columns[j])]
        idx  == SelectIdx(keep, 1, Len(d.columns))
    IN  [k \in 1..Len(idx) |-> d.columns[idx[k]]]

\* the [:20] of lines 66 and 175
QuestionCap == 20

FirstQuestions(cols) ==
    SubSeq(cols, 1, IF Len(cols) < QuestionCap THEN Len(cols) ELSE QuestionCap)

\* question_cols as generate_visualizations and the dashboard use it
question_cols(d) == FirstQuestions(get_question_columns(d))

\* get_question_columns called on the record set
get_question_columns_call ==
    /\ result.op # "init"
    /\ UNCHANGED host
    /\ result' = Call("get_question_columns", << >>,
                      Returned(get_question_columns(df)))
    /\ stdout' = Quiet
    /\ UNCHANGED <<df, fitted>>

\* the departments, locations and positions of the employees table
Roster(by) ==
    CASE by = "dept" -> { << "O","p","s" >>, << "S","a","l","e","s" >> }
      [] by = "location" -> { << "D","e","l","h","i" >>, << "P","u","n","e" >> }
      [] by = "position" -> { << "E","n","g","i","n","e","e","r" >>,
                              << "M","a","n","a","g","e","r" >> }

\* a table with a row for every group of the roster, 0 where a group has no
\* rows in the record set
GroupedTableOfRoster(d, by, cols) ==
    LET keys == SortedStrs(Roster(by))
    IN  [columns |-> cols,
         groups  |-> keys,
         means   |-> [k \in 1..Len(keys) |->
                        [c \in 1..Len(cols) |->
                            LET m == MeanOf(GroupCells(d, by, keys[k], cols[c]))
                            IN  IF m.nan THEN Ratio(0, 1) ELSE m]]]

\* df.groupby(by)[cols].mean(): one row per group key, one mean per column
GroupedTable(d, by, cols) ==
    LET keys == GroupKeys(d, by)
    IN  [columns |-> cols,
         groups  |-> keys,
         means   |-> [k \in 1..Len(keys) |->
                        [c \in 1..Len(cols) |->
                            MeanOf(GroupCells(d, by, keys[k], cols[c]))]]]

\* generate_visualizations' verdict_map (keys are the class ids as text)
backend_verdict_map ==
    { << << "1" >>, WillLeave >>,
      << << "2" >>, << "L","i","k","e","l","y"," ","t","o"," ","L","e","a","v","e" >> >>,
      << << "3" >>, NotDecided >>,
      << << "4" >>,
         << "L","e","s","s"," ","L","i","k","e","l","y"," ","t","o"," ",
            "L","e","a","v","e" >> >>,
      << << "5" >>, << "W","o","n","'","t"," ","L","e","a","v","e" >> >> }

\* df["Final_Verdict"].astype(str).map(verdict_map)
VerdictLabels(d) ==
    LET raw == Column(d, "Final_Verdict")
    IN  [i \in 1..Len(raw) |->
            IF DictHas(backend_verdict_map, AsStr(raw[i]))
            THEN Str(DictGet(backend_verdict_map, AsStr(raw[i])))
            ELSE NaN]

\* Series.value_counts(): each value that is not missing with its count
value_counts(cells) ==
    { << cells[i].str, Cardinality({k \in 1..Len(cells) : cells[k] = cells[i]}) >> :
        i \in {k \in 1..Len(cells) : cells[k].kind = "str"} }

\* a chart saved as PNG and base64-encoded, by what it draws
Base64Png(drawn) == [kind |-> "base64", data |-> drawn]

\* a Plotly figure object
PlotlyFigure(drawn) == [kind |-> "plotly", data |-> drawn]

\* the figs dict of generate_visualizations for a record set that already
\* has its Verdict_Label column
Figures(d) ==
    LET cols == question_cols(d)
    IN  [bar_location |-> Base64Png(GroupedTable(d, "location", cols)),
         bar_position |-> Base64Png(GroupedTable(d, "position", cols)),
         bar_dept     |-> Base64Png(GroupedTable(d, "dept", cols)),
         verdict_pie  |-> PlotlyFigure(value_counts(Column(d, "Verdict_Label"))),
         heatmap      |-> Base64Png(cols)]

\* generate_visualizations: KeyError at the first grouping column the record
\* set lacks (before line 100), else the Verdict_Label column is written
\* into the caller's DataFrame and the figs dict is returned
generate_visualizations ==
    /\ result.op # "init"
    /\ UNCHANGED host
    /\ LET missing == SelectIdx([g \in 1..Len(group_by_options) |->
                                    ~HasCol(df, group_by_options[g])],
                                1, Len(group_by_options))
       IN  IF missing # << >>
           THEN /\ result' = Call("generate_visualizations", << >>,
                                  Raised("KeyError", {group_by_options[missing[1]]}))
                /\ UNCHANGED df
           ELSE /\ df' = SetColumn(df, "Verdict_Label", VerdictLabels(df))
                /\ result' = Call("generate_visualizations", << >>,
                                  Returned(Figures(df')))
    /\ stdout' = Quiet
    /\ UNCHANGED fitted

\* generate_alerts: the alert list, or KeyError at the first grouping column
\* the record set lacks
generate_alerts ==
    /\ result.op # "init"
    /\ UNCHANGED host
    /\ LET missing == SelectIdx([g \in 1..Len(master_params) |->
                                    ~HasCol(df, master_params[g])],
                                1, Len(master_params))
       IN  result' = Call("generate_alerts", << >>,
                 IF missing # << >>
                 THEN Raised("KeyError", {master_params[missing[1]]})
                 ELSE Returned(AlertLoop(df)))
    /\ stdout' = Quiet
    /\ UNCHANGED <<df, fitted>>

(***************************************************************************)
(* The record sets load_merged_data returns: survey_results joined with    *)
(* the employees' location, dept and position.                             *)
(***************************************************************************)
MaxRows == 3

Sales == << "S","a","l","e","s" >>

Ops == << "O","p","s" >>

Engineer == << "E","n","g","i","n","e","e","r" >>

Manager == << "M","a","n","a","g","e","r" >>

Pune == << "P","u","n","e" >>

Delhi == << "D","e","l","h","i" >>

FullColumns ==
    << "srno", "emp_id", "Growth_Opportunities", "Manager_Trust",
       "12_Month_Commitment", "Job_Search_Thoughts", "Final_Verdict",
       "location", "dept", "position" >>

\* one joined row: scores, verdict text and the employee's attributes
JoinedRow(go, mt, mc, js, verdict, location, dept, position) ==
    [go |-> go, mt |-> mt, mc |-> mc, js |-> js, verdict |-> verdict,
     location |-> location, dept |-> dept, position |-> position]

\* rows with every score present
CompleteRows ==
    { JoinedRow(Num(2), Num(2), Num(4), Num(4), Str(<< "1" >>),
                Str(Pune), Str(Sales), Str(Manager)),
      JoinedRow(Num(4), Num(3), Num(2), Num(3), Str(<< "5" >>),
                Str(Delhi), Str(Sales), Str(Engineer)),
      JoinedRow(Num(3), Num(4), Num(3), Num(5), Str(<< "3" >>),
                Str(Delhi), Str(Ops), Str(Manager)) }

\* a row with scores and the department missing (NULL)
SparseRow ==
    JoinedRow(NaN, Num(5), Num(1), NaN, Str(WillLeave),
              Str(Pune), NaN, Str(Engineer))

\* the record sets of 1..MaxRows rows whose first row is complete, so that
\* every score column is numeric
JoinedRowSeqs ==
    UNION { { r \in [1..n -> CompleteRows \cup {SparseRow}] : r[1] \in CompleteRows }
            : n \in 1..MaxRows }

JoinedFile(rows) ==
    Frame(FullColumns,
          [i \in 1..Len(rows) |->
              << Num(i), Str(<< "E" >> \o Digits(i)), rows[i].go, rows[i].mt,
                 rows[i].mc, rows[i].js, rows[i].verdict, rows[i].location,
                 rows[i].dept, rows[i].position >>])

JoinedFiles == { JoinedFile(rows) : rows \in JoinedRowSeqs }

\* the tables as the schema has them: no Manager_Trust column
SchemaFiles == { DropColumns(f, {"Manager_Trust"}) : f \in JoinedFiles }

\* a record set without the position column
FileNoPosition ==
    DropColumns(JoinedFile([i \in 1..2 |->
                    CHOOSE r \in CompleteRows : r.mt = Num(i + 1)]),
                {"position"})

\* record sets with many question columns and a column of text
MaxWide == 22

QuestionNames ==
    << "Q01", "Q02", "Q03", "Q04", "Q05", "Q06", "Q07", "Q08", "Q09", "Q10", "Q11", "Q12", "Q13", "Q14", "Q15", "Q16", "Q17", "Q18", "Q19", "Q20", "Q21", "Q22", "Q23", "Q24" >>

WideFile(n) ==
    Frame(<< "srno", "emp_id" >> \o SubSeq(QuestionNames, 1, 2) \o << "Remarks" >>
            \o SubSeq(QuestionNames, 3, n)
            \o << "Final_Verdict", "location", "dept", "position" >>,
          [i \in 1..2 |->
              << Num(i), Str(<< "E" >> \o Digits(i)) >>
                \o [q \in 1..2 |-> Num(((i + q) % 5) + 1)]
                \o << Str(Ops) >>
                \o [q \in 1..(n - 2) |-> IF q = i THEN NaN ELSE Num(((i + q) % 5) + 1)]
                \o << Str(<< DigitChars[i + 1] >>), Str(Pune),
                      Str(IF i = 1 THEN Sales ELSE Ops), Str(Manager) >>])

WideFiles == { WideFile(n) : n \in (QuestionCap - 1)..MaxWide }

AnalyticsFiles == JoinedFiles \cup SchemaFiles \cup WideFiles \cup {FileNoPosition}

\* load_merged_data: the caller's record set
load_merged_data(file) ==
    /\ UNCHANGED host
    /\ df' = file
    /\ result' = Call("load_merged_data", << >>, Returned(<< >>))
    /\ stdout' = Quiet
    /\ UNCHANGED fitted

(***************************************************************************)
(* The report (report_generator.py): generate_pdf assembling a document    *)
(* from a summary, a dict of figures and a list of alerts.  A document is  *)
(* the sequence of titles, paragraphs and images written to it.            *)
(***************************************************************************)
NoAlert ==
    [icon |-> "", dimension |-> << >>, group |-> << >>, direction |-> "",
     label |-> "", score |-> << >>]

\* PDFReport.add_section_title
SectionTitle(title) ==
    [kind |-> "title", text |-> title, alert |-> NoAlert, image |-> << >>]

\* PDFReport.add_paragraph of a fixed text
Paragraph(text) ==
    [kind |-> "paragraph", text |-> text, alert |-> NoAlert, image |-> << >>]

\* EMOJI_REPLACEMENTS, for the icons alerts start with
EMOJI_REPLACEMENTS ==
    { << "U+26A0", "[WARNING]" >>, << "U+1F6A8", "[ALERT]" >>, << "U+2705", "[OK]" >> }

\* replace_emojis on the icon of an alert
replace_emojis(icon) ==
    IF DictHas(EMOJI_REPLACEMENTS, icon) THEN DictGet(EMOJI_REPLACEMENTS, icon)
    ELSE icon

\* PDFReport.add_paragraph of an alert
AlertParagraph(alert) ==
    [kind |-> "paragraph", text |-> "",
     alert |-> [alert EXCEPT !.icon = replace_emojis(@)], image |-> << >>]

\* a figure that is a str but no base64 of an image
NotAnImage == [kind |-> "text", data |-> "not an image"]

\* Figure.to_image(format="png").decode("latin1"): the PNG bytes as text
ToImageLatin1(fig) == [kind |-> "raw", data |-> fig.data]

\* PDFReport.insert_base64_image: the decoded image, or the paragraph of the
\* except branch when the value is no base64 of an image
insert_base64_image(value) ==
    IF value.kind = "base64"
    THEN << [kind |-> "image", text |-> "", alert |-> NoAlert, image |-> value.data] >>
    ELSE << Paragraph("[ERROR LOADING IMAGE]") >>

\* no document: generate_pdf's None
NoPdf == [isNone |-> TRUE, items |-> << >>]

BarKeys == << "bar_location", "bar_position", "bar_dept" >>

\* f"Survey Question Scores by {label}" and f"No bar chart found for
\* {label}." with label = key.replace("bar_", "").title()
BarTitle ==
    [key \in {"bar_location", "bar_position", "bar_dept"} |->
        CASE key = "bar_location" -> "Survey Question Scores by Location"
          [] key = "bar_position" -> "Survey Question Scores by Position"
          [] key = "bar_dept" -> "Survey Question Scores by Dept"]

BarMissing ==
    [key \in {"bar_location", "bar_position", "bar_dept"} |->
        CASE key = "bar_location" -> "No bar chart found for Location."
          [] key = "bar_position" -> "No bar chart found for Position."
          [] key = "bar_dept" -> "No bar chart found for Dept."]

\* lines 123-133: a figure under "verdict_pie" that has no to_image (a str)
\* raises AttributeError, which the outer except turns into None
PieAborts(figs) ==
    "verdict_pie" \in DOMAIN figs /\ figs["verdict_pie"].kind # "plotly"

\* the document of lines 116-157
ReportItems(summary_text, figs, alerts) ==
    << SectionTitle("Executive Summary"), Paragraph(summary_text),
       SectionTitle("Attrition Verdict Breakdown") >>
    \o (IF "verdict_pie" \in DOMAIN figs
        THEN insert_base64_image(ToImageLatin1(figs["verdict_pie"]))
        ELSE << Paragraph("No verdict pie chart available.") >>)
    \o << SectionTitle("Survey Metric Correlations") >>
    \o (IF "heatmap" \in DOMAIN figs
        THEN insert_base64_image(figs["heatmap"])
        ELSE << Paragraph("No correlation heatmap available.") >>)
    \o Concat([b \in 1..Len(BarKeys) |->
                  << SectionTitle(BarTitle[BarKeys[b]]) >>
                  \o (IF BarKeys[b] \in DOMAIN figs
                      THEN insert_base64_image(figs[BarKeys[b]])
                      ELSE << Paragraph(BarMissing[BarKeys[b]]) >>)],
              Len(BarKeys))
    \o << SectionTitle("Alerts Summary") >>
    \o (IF alerts # << >>
        THEN [k \in 1..Len(alerts) |-> AlertParagraph(alerts[k])]
        ELSE << Paragraph("[OK] No alerts triggered based on thresholds.") >>)

\* generate_pdf: the document, or None
generate_pdf(summary_text, figs, alerts) ==
    IF PieAborts(figs) THEN NoPdf
    ELSE [isNone |-> FALSE, items |-> ReportItems(summary_text, figs, alerts)]

\* the figures a caller may pass under each key: a Plotly figure or base64
\* text for the pie, base64 text or other text for the charts
FigureChoices ==
    [key \in {"verdict_pie", "heatmap", "bar_location", "bar_position", "bar_dept"} |->
        IF key = "verdict_pie"
        THEN {"absent", "base64", "plotly"}
        ELSE {"absent", "base64", "text"}]

FigureOf(key, choice) ==
    CASE choice = "base64" -> Base64Png(key)
      [] choice = "plotly" -> PlotlyFigure(key)
      [] choice = "text" -> NotAnImage

FigDicts ==
    { [key \in {k \in DOMAIN FigureChoices : pick[k] # "absent"} |->
          FigureOf(key, pick[key])] :
        pick \in { p \in [DOMAIN FigureChoices -> {"absent", "base64", "plotly", "text"}] :
                      \A k \in DOMAIN FigureChoices : p[k] \in FigureChoices[k] } }

AlertLists ==
    { << >>,
      << [icon |-> "U+26A0", dimension |-> << "D","e","p","t" >>,
          group |-> << "S","a","l","e","s" >>, direction |-> "LOW",
          label |-> "Trust in Manager", score |-> << "2",".","5","0" >>] >> }

\* generate_pdf called with a summary, figures and alerts
generate_pdf_call(figs, alerts) ==
    LET pdf == generate_pdf("Summary", figs, alerts)
    IN  /\ UNCHANGED host
        /\ result' = Call("generate_pdf", [figs |-> figs, alerts |-> alerts],
                          Returned(pdf))
        /\ stdout' = [Quiet EXCEPT
                         !.errors = IF pdf.isNone THEN {"AttributeError"} ELSE {}]
        /\ UNCHANGED <<df, fitted>>

(***************************************************************************)
(* The dashboard (dashboard_app.py): run_dashboard on the record set that  *)
(* passed the sidebar filters, with its own copy of the alert rules and    *)
(* its own loops.                                                          *)
(***************************************************************************)
\* run_dashboard's alert_columns (lines 206-228), in dict order; thresholds
\* in tenths
dashboard_alert_columns ==
    << [col |-> "12_Month_Commitment", type |-> "low", threshold |-> 30,
        label |-> "12-Month Commitment"],
       [col |-> "Job_Search_Thoughts", type |-> "high", threshold |-> 35,
        label |-> "Job Search Thoughts"],
       [col |-> "Growth_Opportunities", type |-> "low", threshold |-> 30,
        label |-> "Growth Opportunities"],
       [col |-> "Manager_Trust", type |-> "low", threshold |-> 30,
        label |-> "Trust in Manager"],
       [col |-> "Feedback_Received", type |-> "low", threshold |-> 30,
        label |-> "Feedback Received"] >>

\* the groupings of the loops of lines 230 and 271
dashboard_params == << "dept", "position", "location" >>

\* the test of lines 237 / 276 with <= for <
IsLowInclusive(meta, val) ==
    meta.type = "low" /\ ~val.nan /\ ~ScoreAbove(val, meta.threshold)

\* lines 237 / 276: meta["type"] == "low" and val < meta["threshold"]
IsLow(meta, val) == meta.type = "low" /\ ScoreBelow(val, meta.threshold)

\* lines 240 / 280: meta["type"] == "high" and val > meta["threshold"]
IsHigh(meta, val) == meta.type = "high" /\ ScoreAbove(val, meta.threshold)

\* lines 273-283 for one grouping and one rule: what is appended to
\* alert_list
ExportAlerts(d, group_by, meta) ==
    IF ~HasCol(d, meta.col) THEN << >>
    ELSE
      LET group_means == grouped_mean(d, group_by, meta.col)
          hit == SelectIdx([k \in 1..Len(group_means) |->
                               \/ IsLow(meta, group_means[k].score)
                               \/ IsHigh(meta, group_means[k].score)],
                           1, Len(group_means))
      IN  [k \in 1..Len(hit) |->
              LET group == group_means[hit[k]].group
                  val   == group_means[hit[k]].score
              IN  IF IsLow(meta, val)
                  THEN AlertText("U+1F6A8", group_by, group, "LOW", meta.label, val)
                  ELSE AlertText("U+26A0", group_by, group, "HIGH", meta.label, val)]

\* lines 270-283: alert_list
alert_list(d) ==
    Concat([g \in 1..Len(dashboard_params) |->
              Concat([r \in 1..Len(dashboard_alert_columns) |->
                        ExportAlerts(d, dashboard_params[g], dashboard_alert_columns[r])],
                     Len(dashboard_alert_columns))],
           Len(dashboard_params))

\* lines 233-244 for one grouping and one rule: the st.error / st.warning
\* messages
ScreenMessages(d, group_by, meta) ==
    IF ~HasCol(d, meta.col) THEN << >>
    ELSE
      LET group_means == grouped_mean(d, group_by, meta.col)
          hit == SelectIdx([k \in 1..Len(group_means) |->
                               \/ IsLow(meta, group_means[k].score)
                               \/ IsHigh(meta, group_means[k].score)],
                           1, Len(group_means))
      IN  [k \in 1..Len(hit) |->
              LET val == group_means[hit[k]].score
              IN  [level |-> IF IsLow(meta, val) THEN "error" ELSE "warning",
                   group |-> group_means[hit[k]].group,
                   label |-> meta.label,
                   val   |-> FormatScore(val)]]

\* lines 230-246: one expander per grouping, with its messages or the
\* st.info line when no rule fired
Expanders(d) ==
    [g \in 1..Len(dashboard_params) |->
        LET found == Concat([r \in 1..Len(dashboard_alert_columns) |->
                               ScreenMessages(d, dashboard_params[g],
                                              dashboard_alert_columns[r])],
                            Len(dashboard_alert_columns))
        IN  [title    |-> Title(NameChars[dashboard_params[g]]),
             messages |-> found,
             info     |-> found = << >>]]

\* lines 289-299: the figs of the export, every one base64 text of a PNG
ExportFigs(d) ==
    LET cols == question_cols(d)
        bars == [key \in {"heatmap", "bar_location", "bar_position", "bar_dept"} |->
                    CASE key = "heatmap" -> Base64Png(cols)
                      [] key = "bar_location" -> Base64Png(GroupedTable(d, "location", cols))
                      [] key = "bar_position" -> Base64Png(GroupedTable(d, "position", cols))
                      [] key = "bar_dept" -> Base64Png(GroupedTable(d, "dept", cols))]
    IN  IF HasCol(d, "Final_Verdict") /\ d.rows # << >>
        THEN [key \in {"verdict_pie"} |->
                 Base64Png(value_counts(Column(d, "Final_Verdict")))] @@ bars
        ELSE bars

\* the columns the sidebar reads, in the order of lines 131-139
sidebar_columns == << "dept", "location", "position" >>

\* run_dashboard with every sidebar filter at its default, so that
\* filtered_df is the record set: KeyError at the first sidebar column it
\* lacks, else the page (expanders, export alert list, figs, the PDF and
\* whether the download button or the failure message is shown)
run_dashboard ==
    /\ ~df.isNone
    /\ UNCHANGED host
    /\ LET missing == SelectIdx([g \in 1..Len(sidebar_columns) |->
                                    ~HasCol(df, sidebar_columns[g])],
                                1, Len(sidebar_columns))
           figs == ExportFigs(df)
           pdf_bytes == generate_pdf("Auto-generated summary", figs, alert_list(df))
       IN  IF missing # << >>
           THEN /\ result' = Call("run_dashboard", << >>,
                                  Raised("KeyError", {sidebar_columns[missing[1]]}))
                /\ stdout' = Quiet
           ELSE /\ result' = Call("run_dashboard", << >>,
                       Returned([expanders  |-> Expanders(df),
                                 alert_list |-> alert_list(df),
                                 figs       |-> figs,
                                 pdf_bytes  |-> pdf_bytes,
                                 download   |-> ~pdf_bytes.isNone,
                                 failed     |-> pdf_bytes.isNone]))
                /\ stdout' = [Quiet EXCEPT
                                 !.errors = IF pdf_bytes.isNone
                                            THEN {"AttributeError"} ELSE {}]
    /\ UNCHANGED <<df, fitted>>

\* a program that loads a record set and runs the analytics on it
NextAnalytics ==
    \/ /\ result.op = "init"
       /\ \E file \in AnalyticsFiles : load_merged_data(file)
    \/ generate_alerts
    \/ get_question_columns_call
    \/ generate_visualizations
    \/ run_dashboard

SpecAnalytics == Init /\ [][NextAnalytics]_vars

\* a caller of generate_pdf, or the dashboard on a record set
NextReport ==
    \/ /\ result.op = "init"
       /\ \E figs \in FigDicts : \E alerts \in AlertLists :
             generate_pdf_call(figs, alerts)
    \/ /\ result.op = "init"
       /\ \E file \in AnalyticsFiles : load_merged_data(file)
    \/ run_dashboard

SpecReport == Init /\ [][NextReport]_vars

(***************************************************************************)
(* Concurrent predictions: MaxCallers threads of a hosting process, each   *)
(* inside AttritionController.predict_from_dict on the one controller the  *)
(* process constructed, with no load or train running.  The steps of one   *)
(* call are the statements of predict_from_dict, interleaved freely.       *)
(***************************************************************************)
ConcurrentDicts ==
    { [k \in {"Q1", "Q2"} |-> 1],
      [k \in {"Q1", "Q2", "Q9"} |-> IF k = "Q1" THEN 5 ELSE 1],
      [k \in {"Q1"} |-> 5] }

\* a thread enters predict_from_dict(input_dict)
call_predict(t, input_dict) ==
    /\ fitted.isFitted
    /\ calls[t].pc \in {"idle", "done"}
    /\ calls' = [calls EXCEPT ![t] = [IdleCall EXCEPT !.pc = "called",
                                                      !.input_dict = input_dict]]
    /\ UNCHANGED <<df, fitted, result, stdout, session_state, page>>

\* line 200 with a get_column_names that drops the columns in place
read_column_names_inplace(t) ==
    /\ calls[t].pc = "called"
    /\ calls' = [calls EXCEPT ![t].pc = "columns",
                              ![t].columns = get_column_names(df)]
    /\ df' = DropColumns(df, DroppedColumns)
    /\ UNCHANGED <<fitted, result, stdout, session_state, page>>

\* line 200: columns = self.model.get_column_names(), reading self.df
read_column_names(t) ==
    /\ calls[t].pc = "called"
    /\ calls' = [calls EXCEPT ![t].pc = "columns",
                              ![t].columns = get_column_names(df)]
    /\ UNCHANGED <<df, fitted, result, stdout, session_state, page>>

\* line 201: the input array, or KeyError at the first column that
\* input_dict lacks
build_input_array(t) ==
    /\ calls[t].pc = "columns"
    /\ LET columns == calls[t].columns
           missing == {j \in 1..Len(columns) :
                          columns[j] \notin DOMAIN calls[t].input_dict}
       IN  calls' = [calls EXCEPT ![t] =
                IF missing # {}
                THEN [@ EXCEPT !.pc = "done",
                               !.outcome = Raised("KeyError", {columns[Min(missing)]})]
                ELSE [@ EXCEPT !.pc = "array"]]
    /\ UNCHANGED <<df, fitted, result, stdout, session_state, page>>

\* line 202: predict_textual(input_array), reading the fitted classifier and
\* reverse_verdict_map
call_predict_textual(t) ==
    /\ calls[t].pc = "array"
    /\ LET columns == calls[t].columns
           input_array == [j \in 1..Len(columns) |-> calls[t].input_dict[columns[j]]]
       IN  calls' = [calls EXCEPT ![t].pc = "done", ![t].outcome =
                IF ~fitted.isFitted THEN Raised("NotFittedError", {})
                ELSE IF Len(columns) # Len(fitted.features) THEN Raised("ValueError", {})
                ELSE Returned(predict_textual(fitted, input_array))]
    /\ UNCHANGED <<df, fitted, result, stdout, session_state, page>>

\* a process that constructs one controller and then only predicts
NextConcurrent ==
    \/ /\ df.isNone
       /\ \E file \in RecordSets : AttritionController_init(NameLower, file)
    \/ \E t \in Callers : \E input_dict \in ConcurrentDicts : call_predict(t, input_dict)
    \/ \E t \in Callers : read_column_names(t)
    \/ \E t \in Callers : build_input_array(t)
    \/ \E t \in Callers : call_predict_textual(t)

SpecConcurrent == Init /\ [][NextConcurrent]_vars

(***************************************************************************)
(* The survey (form.py, frontend.py): one browser session of the form.     *)
(* Every event runs the script FormController.run once on st.session_state.*)
(***************************************************************************)
\* display_question: options
options ==
    { << "Not Satisfactory", 1 >>, << "Slightly Satisfactory", 2 >>,
      << "Neutral", 3 >>, << "Satisfactory", 4 >>, << "Highly Satisfied", 5 >> }

OptionLabels == { kv[1] : kv \in options }

\* SurveySessionState._init_state
init_state(s) ==
    [s EXCEPT !.present   = @ \cup {"current_q", "responses"},
              !.current_q = IF "current_q" \in s.present THEN @ ELSE 0,
              !.responses = IF "responses" \in s.present THEN @ ELSE << >>]

\* add_response storing the value without moving to the next question
add_response_no_advance(s, value) ==
    [s EXCEPT !.responses = Append(@, value)]

\* SurveySessionState.add_response
add_response(s, value) ==
    [s EXCEPT !.responses = Append(@, value), !.current_q = @ + 1]

\* SurveySessionState.is_complete
is_complete(s) == s.current_q >= TotalQuestions

\* SurveySessionState.reset
reset(s) ==
    [s EXCEPT !.current_q = 0, !.responses = << >>,
              !.question  = [i \in QuestionKeys |-> "absent"]]

\* Streamlit at the end of a script run: the state of every keyed widget
\* that the run did not render is dropped
RemoveStale(s, rendered) ==
    [s EXCEPT !.question = [i \in QuestionKeys |->
                               IF i \in rendered THEN @[i] ELSE "absent"]]

\* one run of FormController.run on session state s.  clicked: the Start
\* Over button was pressed; predict_ok: the model call of line 271 returns
\* (it is a collaborator: it may raise); sweep: whether the Streamlit in use
\* drops stale widget state when a run ends in st.rerun() or an exception
\* (versions differ; a run that ends normally always does)
RunScript(s, clicked, predict_ok, sweep) ==
    LET s1 == init_state(s)
        idx == s1.current_q
    IN  IF ~is_complete(s1)
        THEN LET fresh  == s1.question[idx] = "absent"
                 s2     == IF fresh THEN [s1 EXCEPT !.question[idx] = "none"] ELSE s1
                 choice == s2.question[idx]
                 shown  == IF fresh THEN {idx} ELSE {}
             IN  IF choice # "none" /\ Len(s2.responses) = idx
                 THEN [session |-> LET s3 == add_response(s2, DictGet(options, choice))
                                   IN  IF sweep THEN RemoveStale(s3, shown) ELSE s3,
                       page    |-> [radio |-> -1, button |-> FALSE, finished |-> FALSE,
                                    error |-> FALSE, pending |-> TRUE]]
                 ELSE [session |-> RemoveStale(s2, shown),
                       page    |-> [radio |-> IF fresh THEN idx ELSE -1,
                                    button |-> FALSE, finished |-> FALSE,
                                    error |-> FALSE, pending |-> FALSE]]
        ELSE IF ~predict_ok
        THEN [session |-> IF sweep THEN RemoveStale(s1, {}) ELSE s1,
              page    |-> [radio |-> -1, button |-> FALSE, finished |-> TRUE,
                           error |-> TRUE, pending |-> FALSE]]
        ELSE IF clicked
        THEN [session |-> LET s3 == reset(s1)
                          IN  IF sweep THEN RemoveStale(s3, {}) ELSE s3,
              page    |-> [radio |-> -1, button |-> TRUE, finished |-> TRUE,
                           error |-> FALSE, pending |-> TRUE]]
        ELSE [session |-> RemoveStale(s1, {}),
              page    |-> [radio |-> -1, button |-> TRUE, finished |-> TRUE,
                           error |-> FALSE, pending |-> FALSE]]

\* FormController.run started by `event` on session state s
FormController_run(event, arg, s, clicked) ==
    \E predict_ok \in BOOLEAN : \E sweep \in BOOLEAN :
        LET out == RunScript(s, clicked, predict_ok, sweep)
        IN  /\ session_state' = out.session
            /\ page' = out.page
            /\ result' = Call(event, arg, Returned(<< >>))
            /\ UNCHANGED <<df, fitted, stdout, calls>>

\* the page is loaded or rerun: by st.rerun(), or by anything else on it
rerun == FormController_run("rerun", "", session_state, FALSE)

\* the user picks a label on the radio the page shows
select_option(label) ==
    /\ ~page.pending
    /\ page.radio >= 0
    /\ FormController_run("select", label,
           [session_state EXCEPT !.question[page.radio] = label], FALSE)

\* the user presses Start Over
click_start_over ==
    /\ ~page.pending
    /\ page.button
    /\ FormController_run("start_over", "", session_state, TRUE)

NextSurvey ==
    \/ rerun
    \/ \E label \in OptionLabels : select_option(label)
    \/ click_start_over

SpecSurvey == Init /\ [][NextSurvey]_vars

(***************************************************************************)
(* Properties                                                              *)
(***************************************************************************)
CanonicalTexts ==
    {WillLeave, LikelyToLeave, NotDecided, LessLikelyToLeave, WontLeave}

\* the labels of the record set the last load read
RawBatch == Column(result.arg, "Final_Verdict")

TrimTitle(c) == Title(Strip(AsStr(c)))

\* the positions of the last load's labels that are not canonical after
\* trimming and title-casing
Offending == {i \in 1..Len(RawBatch) : TrimTitle(RawBatch[i]) \notin CanonicalTexts}

LoadFailed == result.op = "load" /\ result.err # ""

\* C1: a predict on a service that is not Trained (no DataFrame, or a
\* DataFrame but no fitted classifier) raises an error and returns no
\* verdict text.
C1_PredictBeforeTrainedFails ==
    (result.op = "predict" /\ ~fitted.isFitted)
        => /\ result.err \in {"AttributeError", "NotFittedError", "KeyError"}
           /\ result.val = << >>

C1_Witness ==
    /\ result.op = "predict"
    /\ ~df.isNone
    /\ ~fitted.isFitted
    /\ result.err = "NotFittedError"

\* C2: the column list predict builds its input vector from is the column
\* list the fitted classifier was trained on.
C2_ContractFixedAtTraining ==
    fitted.isFitted => get_column_names(df) = fitted.features

\* C3: after a load that failed on an unmappable label the service holds no
\* record set containing an unmapped label.
C3_RejectedSetNotHeld ==
    LoadFailed => (df.isNone \/ ~HasUnmapped(df))

\* C4: a load fails if and only if at least one label of the batch, trimmed
\* and title-cased, is not one of the five canonical verdict texts.
C4_FailsIffSomeLabelUnmappable ==
    result.op = "load" => ((result.err # "") <=> (Offending # {}))

C4_Witness ==
    /\ LoadFailed
    /\ \E i, k \in 1..Len(RawBatch) :
          /\ i \in Offending
          /\ k \notin Offending
          /\ AsStr(RawBatch[k]) \notin CanonicalTexts

C6_MismatchIffContractColumnAbsent ==
    (result.op = "predict" /\ fitted.isFitted) =>
        ((result.err = "KeyError") <=>
            (\E j \in 1..Len(fitted.features) :
                fitted.features[j] \notin DOMAIN result.arg))

\* C7: the missing-column error lists all the contract columns the input
\* lacks.
C7_ErrorListsAllMissing ==
    (/\ result.op = "predict"
     /\ result.err = "KeyError"
     /\ fitted.isFitted
     /\ get_column_names(df) = fitted.features) =>
        result.detail =
            {fitted.features[j] : j \in
                {k \in 1..Len(fitted.features) :
                    fitted.features[k] \notin DOMAIN result.arg}}

\* C8: a predict that fails on a Trained service changes neither the
\* DataFrame nor the fitted classifier, and every later predict answers as
\* it would have without the failing call.
C8_FailedPredictChangesNothing ==
    [][(result'.op = "predict" /\ result'.err # "" /\ fitted.isFitted) =>
          /\ df' = df
          /\ fitted' = fitted
          /\ \A input_dict \in InputDicts :
                PredictOutcome(df', fitted', input_dict) =
                    PredictOutcome(df, fitted, input_dict)]_vars

C8_Witness ==
    /\ result.op = "predict"
    /\ result.err = "KeyError"
    /\ fitted.isFitted

\* C9: once the classifier is fitted no later operation changes it.
C9_FittedAtMostOnce == [][fitted.isFitted => fitted' = fitted]_vars

\* C10: train on a service without a DataFrame fails and fits nothing, and
\* the classifier becomes fitted only by a successful train on a DataFrame
\* that a load has cleaned.
C10_TrainRequiresLoaded ==
    /\ [](df.isNone => ~fitted.isFitted)
    /\ [][(result'.op = "train" /\ df.isNone) =>
             (result'.err = "AttributeError" /\ ~fitted'.isFitted)]_vars
    /\ [][(~fitted.isFitted /\ fitted'.isFitted) =>
             /\ ~df.isNone
             /\ ~HasUnmapped(df)
             /\ df' = df
             /\ result'.op = "train"
             /\ result'.err = ""]_vars

C10_Witness ==
    /\ result.op = "train"
    /\ result.err = "AttributeError"
    /\ df.isNone

\* the five verdict texts in canonical order
CanonicalOrder ==
    << WillLeave, LikelyToLeave, NotDecided, LessLikelyToLeave, WontLeave >>

OrderIndex(text) == CHOOSE k \in 1..Len(CanonicalOrder) : CanonicalOrder[k] = text

\* the class ids of the rows of the last load, row i of the DataFrame being
\* row i of the record set read (no row of a label batch is dropped)
EncodedBatch == Column(df, "Final_Verdict_Num")

\* text compared ignoring letter case and leading and trailing whitespace
CaseFold(s) == LET t == Strip(s) IN [i \in 1..Len(t) |-> ToLower(t[i])]

\* C11: decode(encode(text)) is the trimmed, title-cased text for every label
\* whose normalized form is canonical; decode inverts encode on the five
\* canonical texts and encode inverts decode on the class ids 1..5.
C11_DecodeInvertsEncode ==
    /\ result.op = "load" =>
          \A i \in 1..Len(RawBatch) :
              TrimTitle(RawBatch[i]) \in CanonicalTexts =>
                  /\ ~IsNa(EncodedBatch[i])
                  /\ DecodeVerdict(EncodedBatch[i].num) = TrimTitle(RawBatch[i])
    /\ \A t \in CanonicalTexts :
          /\ ~IsNa(MapVerdict(t))
          /\ DecodeVerdict(MapVerdict(t).num) = t
    /\ \A k \in 1..5 : MapVerdict(DecodeVerdict(k)) = Num(k)

C11_Witness ==
    /\ result.op = "load"
    /\ result.err = ""
    /\ Len(RawBatch) >= 2
    /\ \E i \in 1..Len(RawBatch) :
          /\ AsStr(RawBatch[i]) \notin CanonicalTexts
          /\ DecodeVerdict(EncodedBatch[i].num) = TrimTitle(RawBatch[i])

\* C12: the class id of a label is the position of its trimmed, title-cased
\* form in the canonical order (Will Leave 1 ... Wont Leave 5), and two labels
\* that differ only in letter case or surrounding whitespace get the same id.
C12_EncodeByNormalizedForm ==
    result.op = "load" =>
        /\ \A i \in 1..Len(RawBatch) :
              TrimTitle(RawBatch[i]) \in CanonicalTexts =>
                  EncodedBatch[i] = Num(OrderIndex(TrimTitle(RawBatch[i])))
        /\ \A i, k \in 1..Len(RawBatch) :
              CaseFold(AsStr(RawBatch[i])) = CaseFold(AsStr(RawBatch[k])) =>
                  EncodedBatch[i] = EncodedBatch[k]

C12_Witness ==
    /\ result.op = "load"
    /\ result.err = ""
    /\ \E i, k \in 1..Len(RawBatch) :
          /\ RawBatch[i] # RawBatch[k]
          /\ CaseFold(AsStr(RawBatch[i])) = CaseFold(AsStr(RawBatch[k]))
          /\ EncodedBatch[i] = Num(1)
          /\ EncodedBatch[k] = Num(1)

\* class ids handed to decode: the five of the codec and ids outside them
MaxClassId == 7

\* C13: decode gives the canonical text for the ids 1..5 and "Unknown" for
\* every other id, so a predict that returns returns one of the five verdict
\* texts or "Unknown".
C13_DecodeTotal ==
    /\ \A k \in 0..MaxClassId :
          DecodeVerdict(k) = IF k \in 1..5 THEN CanonicalOrder[k] ELSE Unknown
    /\ (result.op = "predict" /\ result.err = "") =>
          result.val \in CanonicalTexts \cup {Unknown}

C13_Witness ==
    /\ result.op = "predict"
    /\ result.err = ""
    /\ result.val \in CanonicalTexts

\* the identifier column and the label columns
IdAndLabelColumns == {"emp_id", "Final_Verdict", "Final_Verdict_Num"}

PositionIn(cols, name) == CHOOSE j \in 1..Len(cols) : cols[j] = name

\* list holds the columns of cols that are neither identifier nor label,
\* each once, in the order of cols
IsDerivedFrom(list, cols) ==
    /\ \A j \in 1..Len(cols) :
          cols[j] \notin IdAndLabelColumns => \E k \in 1..Len(list) : list[k] = cols[j]
    /\ \A k \in 1..Len(list) :
          /\ list[k] \notin IdAndLabelColumns
          /\ \E j \in 1..Len(cols) : cols[j] = list[k]
    /\ Len(list) = Cardinality({j \in 1..Len(cols) : cols[j] \notin IdAndLabelColumns})
    /\ \A a, b \in 1..Len(list) :
          a < b => PositionIn(cols, list[a]) < PositionIn(cols, list[b])

\* C14: get_column_names returns the columns of the record set with exactly
\* the identifier column and the label columns removed, in record-set order;
\* train fits on the same columns.
C14_DeriveExcludesIdAndLabels ==
    /\ (result.op = "get_features" /\ result.err = "") =>
          IsDerivedFrom(result.val, df.columns)
    /\ fitted.isFitted => IsDerivedFrom(fitted.features, df.columns)

C14_Witness ==
    /\ result.op = "get_features"
    /\ result.err = ""
    /\ HasCol(df, "emp_id")
    /\ HasCol(df, "srno")
    /\ result.val = << "srno", "dept", "Q1", "Q2" >>

\* C15: get_features changes neither the DataFrame nor the classifier, and
\* a second call on the untouched service returns what the first returned.
C15_DeriveReadOnlyIdempotent ==
    [][result'.op = "get_features" =>
          /\ df' = df
          /\ fitted' = fitted
          /\ result.op = "get_features" => result' = result]_vars

C15_Witness ==
    /\ result.op = "get_features"
    /\ result.err = ""
    /\ Len(result.val) = 2
    /\ fitted.isFitted

\* the strategy names the factory knows
RegisteredNames == {NameLower}

SameIgnoringCase(a, b) ==
    /\ Len(a) = Len(b)
    /\ \A i \in 1..Len(a) : ToUpper(a[i]) = ToUpper(b[i])

IsRegistered(name) == \E known \in RegisteredNames : SameIgnoringCase(name, known)

\* C16: get_model(name) returns a strategy exactly when name equals a
\* registered name ignoring letter case, fails for every other name, and
\* what it returns is a new, untrained strategy.
C16_FactoryCaseInsensitive ==
    result.op = "get_model" =>
        /\ (result.err = "") <=> IsRegistered(result.arg)
        /\ (result.err = "") => result.val = NotFitted
        /\ (result.err # "") => result.err = "ValueError"

C16_Witness ==
    /\ result.op = "get_model"
    /\ result.arg = NameMixed
    /\ result.err = ""
    /\ fitted.isFitted

\* a constructor was last called with a strategy name the factory does not know
ConstructedUnregistered ==
    /\ result.op = "construct"
    /\ ~IsRegistered(result.arg.model_name)

\* C17 (as stated): constructing with an unregistered strategy name fails
\* before any load or train, and the error lists the requested name and the
\* known strategy names.
C17_ErrorListsRequestedAndKnown ==
    ConstructedUnregistered =>
        /\ result.err # ""
        /\ df.isNone /\ ~fitted.isFitted /\ stdout = Quiet
        /\ result.arg.model_name \in result.detail
        /\ RegisteredNames \subseteq result.detail

\* C17 (amended): constructing with an unregistered strategy name fails
\* before any load or train, and the error names the requested name only.
C17_FailsAtConstruction ==
    ConstructedUnregistered =>
        /\ result.err = "ValueError"
        /\ df.isNone /\ ~fitted.isFitted /\ stdout = Quiet
        /\ result.detail = {result.arg.model_name}

C17_Witness ==
    /\ ConstructedUnregistered
    /\ result.arg.model_name = NameSvm
    /\ result.arg.file = FileUnmapped
    /\ result.err = "ValueError"
    /\ stdout = Quiet

\* the class ids of the DataFrame's rows
LabelIds == Column(df, "Final_Verdict_Num")

\* the DataFrame is a cleaned record set holding all five verdict classes,
\* each with at least two rows
FiveClassesTwice ==
    /\ ~df.isNone
    /\ \A i \in 1..Len(df.rows) : LabelIds[i].kind = "num"
    /\ \A c \in 1..5 : Cardinality({i \in 1..Len(df.rows) : LabelIds[i].num = c}) >= 2

\* the last train returned, left the classifier fitted on the DataFrame and
\* printed an accuracy correct / tested within [0, 1]
TrainSucceeded ==
    /\ result.err = ""
    /\ fitted.isFitted
    /\ fitted.y = LabelIds
    /\ Len(stdout.accuracy) = 2
    /\ stdout.accuracy[2] > 0
    /\ 0 <= stdout.accuracy[1]
    /\ stdout.accuracy[1] <= stdout.accuracy[2]

\* C18 (as stated): on a cleaned record set with all five classes and at
\* least two rows of each, train succeeds with an accuracy in [0, 1] and the
\* service is Trained.
C18_TrainSucceedsOnFiveClasses ==
    (result.op = "train" /\ FiveClassesTwice) => TrainSucceeded

\* C18 (amended): on a cleaned record set with all five classes, at least
\* two rows of each, at least 21 rows in all and a feature column, train
\* succeeds with an accuracy in [0, 1] and the service is Trained.
C18_TrainSucceedsFrom21Rows ==
    (/\ result.op = "train"
     /\ FiveClassesTwice
     /\ Len(df.rows) >= 21
     /\ get_column_names(df) # << >>
     /\ \A k \in 1..Len(df.rows) :
           \A j \in 1..Len(df.columns) :
               df.columns[j] \notin IdAndLabelColumns => df.rows[k][j].kind = "num")
        => TrainSucceeded

C18_Witness ==
    /\ result.op = "train"
    /\ FiveClassesTwice
    /\ Len(df.rows) = 21
    /\ TrainSucceeded

\* the row of the DataFrame that load_and_clean_data keeps for a row of the
\* record set read: the label trimmed and title-cased, the class id appended
CleanedRow(file, row) ==
    LET j0 == CHOOSE j \in 1..Len(file.columns) : file.columns[j] = "Final_Verdict"
        t  == TrimTitle(row[j0])
    IN  Append([row EXCEPT ![j0] = Str(t)], Num(OrderIndex(t)))

\* C19: after a load that succeeded the DataFrame has no missing value, and
\* its rows are exactly the rows of the record set read that had none, each
\* unchanged but for the normalized label and the added class id.
C19_CleanedHasNoMissing ==
    (result.op = "load" /\ result.err = "") =>
        LET file == result.arg
            kept == {i \in 1..Len(file.rows) :
                        \A j \in 1..Len(file.columns) : file.rows[i][j].kind # "nan"}
        IN  /\ ~df.isNone
            /\ df.columns = Append(file.columns, "Final_Verdict_Num")
            /\ \A k \in 1..Len(df.rows) :
                  \A j \in 1..Len(df.columns) : df.rows[k][j].kind # "nan"
            /\ Len(df.rows) = Cardinality(kept)
            /\ \A i \in kept :
                  \E k \in 1..Len(df.rows) : df.rows[k] = CleanedRow(file, file.rows[i])
            /\ \A k \in 1..Len(df.rows) :
                  \E i \in kept : df.rows[k] = CleanedRow(file, file.rows[i])

C19_Witness ==
    /\ result.op = "load"
    /\ result.err = ""
    /\ Len(df.rows) > 0
    /\ Len(df.rows) + 2 = Len(result.arg.rows)

\* C20: every feature value of the cleaned DataFrame, and of the data the
\* classifier is fitted on, is an integer in 1..5.
C20_FeatureValuesInDomain ==
    /\ (result.op = "load" /\ result.err = "") =>
          \A k \in 1..Len(df.rows) :
              \A j \in 1..Len(df.columns) :
                  df.columns[j] \notin IdAndLabelColumns =>
                      (df.rows[k][j].kind = "num" /\ df.rows[k][j].num \in 1..5)
    /\ fitted.isFitted =>
          \A k \in 1..Len(fitted.X.rows) :
              \A j \in 1..Len(fitted.X.columns) :
                  (fitted.X.rows[k][j].kind = "num" /\ fitted.X.rows[k][j].num \in 1..5)

\* the record set has the three grouping columns
HasGroupings == \A g \in 1..Len(master_params) : HasCol(df, master_params[g])

\* the rows of the record set whose value in column by is the group
RowsOfGroup(by, group) ==
    {i \in 1..Len(df.rows) : Column(df, by)[i] = Str(group)}

\* the groups of a grouping column: the values some row has
GroupsOf(by) ==
    {Column(df, by)[i].str : i \in {k \in 1..Len(df.rows) : Column(df, by)[k].kind = "str"}}

\* the scores of column col in a set of rows that are not missing
ScoresIn(rows, col) == {i \in rows : Column(df, col)[i].kind = "num"}

RECURSIVE SumOver(_, _)
SumOver(rows, col) ==
    IF rows = {} THEN 0
    ELSE LET i == CHOOSE k \in rows : TRUE
         IN  Column(df, col)[i].num + SumOver(rows \ {i}, col)

\* the group's mean of the rule's column strictly violates the threshold
Violates(meta, by, group) ==
    LET rows == ScoresIn(RowsOfGroup(by, group), meta.col)
        n    == Cardinality(rows)
        sum  == SumOver(rows, meta.col)
    IN  /\ n > 0
        /\ \/ meta.type = "low" /\ 10 * sum < meta.threshold * n
           \/ meta.type = "high" /\ 10 * sum > meta.threshold * n

\* the alerts in a list for one (grouping, rule, group)
AlertsOf(list, by, meta, group) ==
    {k \in 1..Len(list) :
        /\ list[k].dimension = Title(NameChars[by])
        /\ list[k].label = meta.label
        /\ list[k].group = group}

\* C21: generate_alerts emits exactly one alert for a (grouping, rule, group)
\* when the rule's column is in the record set and the group's mean strictly
\* violates the threshold, and none otherwise (a mean equal to the threshold,
\* a column that is absent).
C21_AlertIffStrictViolation ==
    (result.op = "generate_alerts" /\ HasGroupings) =>
        /\ result.err = ""
        /\ \A g \in 1..Len(master_params) :
           \A r \in 1..Len(alert_columns) :
           \A group \in GroupsOf(master_params[g]) :
              Cardinality(AlertsOf(result.val, master_params[g],
                                   alert_columns[r], group))
                = IF /\ HasCol(df, alert_columns[r].col)
                     /\ Violates(alert_columns[r], master_params[g], group)
                  THEN 1 ELSE 0
        /\ \A k \in 1..Len(result.val) :
              \E g \in 1..Len(master_params) :
              \E r \in 1..Len(alert_columns) :
              \E group \in GroupsOf(master_params[g]) :
                  k \in AlertsOf(result.val, master_params[g],
                                 alert_columns[r], group)

\* Sales is below 3.0 on Manager_Trust (2.5) and alerts, Ops (4.0) does not,
\* and the Job_Search_Thoughts mean of Sales equals its threshold 3.5
C21_Witness ==
    /\ result.op = "generate_alerts"
    /\ result.err = ""
    /\ GroupsOf("dept") = {Sales, Ops}
    /\ Cardinality(RowsOfGroup("dept", Sales)) = 2
    /\ \E k \in 1..Len(result.val) :
          /\ result.val[k].label = "Trust in Manager"
          /\ result.val[k].group = Sales
          /\ result.val[k].score = << "2", ".", "5", "0" >>
    /\ ~\E k \in 1..Len(result.val) :
          /\ result.val[k].label = "Trust in Manager"
          /\ result.val[k].group = Ops
    /\ ~\E k \in 1..Len(result.val) :
          /\ result.val[k].label = "Job Search Thoughts"
          /\ result.val[k].group = Sales

\* the fixed order of the grouping dimensions
DimensionOrder == << "dept", "position", "location" >>

IndexIn(seq, x) == CHOOSE k \in 1..Len(seq) : seq[k] = x

\* where an alert stands: its grouping dimension, its rule and the place of
\* its group in the aggregate table
AlertRank(a) ==
    LET g  == CHOOSE k \in 1..Len(DimensionOrder) :
                  Title(NameChars[DimensionOrder[k]]) = a.dimension
        r  == CHOOSE k \in 1..Len(alert_columns) : alert_columns[k].label = a.label
    IN  << g, r, IndexIn(GroupKeys(df, DimensionOrder[g]), a.group) >>

RankBefore(x, y) ==
    \/ x[1] < y[1]
    \/ x[1] = y[1] /\ x[2] < y[2]
    \/ x[1] = y[1] /\ x[2] = y[2] /\ x[3] < y[3]

\* C22: the alerts come by grouping dimension (dept, position, location),
\* then by rule in configuration order, then by group in the order of the
\* aggregate table; with C21 this fixes the whole sequence for a record set.
C22_AlertOrder ==
    (result.op = "generate_alerts" /\ result.err = "") =>
        \A k \in 1..(Len(result.val) - 1) :
            RankBefore(AlertRank(result.val[k]), AlertRank(result.val[k + 1]))

\* a list that changes group within a rule (Ops before Sales although the
\* first row is of Sales), rule within a dimension, and dimension
C22_Witness ==
    /\ result.op = "generate_alerts"
    /\ result.err = ""
    /\ Column(df, "dept")[1] = Str(Sales)
    /\ \E k \in 1..(Len(result.val) - 1) :
          /\ result.val[k].dimension = result.val[k + 1].dimension
          /\ result.val[k].label = result.val[k + 1].label
          /\ result.val[k].group = Ops
          /\ result.val[k + 1].group = Sales
    /\ \E k \in 1..(Len(result.val) - 1) :
          /\ result.val[k].dimension = result.val[k + 1].dimension
          /\ result.val[k].label # result.val[k + 1].label
    /\ \E k \in 1..(Len(result.val) - 1) :
          result.val[k].dimension # result.val[k + 1].dimension

\* the columns of the record set that are numeric and neither the identifier,
\* the row sequence, the label nor a grouping dimension
Qualifying ==
    {j \in 1..Len(df.columns) :
        /\ df.columns[j] \notin
              {"emp_id", "srno", "Final_Verdict", "dept", "location", "position"}
        /\ \A i \in 1..Len(df.rows) : df.rows[i][j].kind # "str"
        /\ \E i \in 1..Len(df.rows) : df.rows[i][j].kind = "num"}

\* seq lists, in record-set column order, the first n qualifying columns
ListsQualifying(seq, n) ==
    /\ Len(seq) = n
    /\ \A k \in 1..n :
          \E j \in Qualifying :
              /\ df.columns[j] = seq[k]
              /\ Cardinality({i \in Qualifying : i < j}) = k - 1

\* the question columns a call reports: the list get_question_columns
\* returns, the columns generate_visualizations charts
ReportedQuestions ==
    IF result.op = "get_question_columns" THEN result.val
    ELSE result.val.bar_dept.data.columns

QuestionsReported ==
    /\ result.op \in {"get_question_columns", "generate_visualizations"}
    /\ result.err = ""

\* C23 (as stated): the question columns are every qualifying column, in
\* record-set column order, and never more than 20.
C23_AllQualifyingAtMost20 ==
    QuestionsReported =>
        /\ ListsQualifying(ReportedQuestions, Cardinality(Qualifying))
        /\ Len(ReportedQuestions) <= 20

\* C23 (amended): get_question_columns returns every qualifying column, in
\* record-set column order, however many; the charts use the first 20 of
\* them.
C23_QualifyingCappedWhereUsed ==
    QuestionsReported =>
        IF result.op = "get_question_columns"
        THEN ListsQualifying(result.val, Cardinality(Qualifying))
        ELSE ListsQualifying(ReportedQuestions,
                             IF Cardinality(Qualifying) < 20
                             THEN Cardinality(Qualifying) ELSE 20)

\* more than 20 qualifying columns and a text column among them: the charts
\* hold 20
C23_Witness ==
    /\ result.op = "generate_visualizations"
    /\ result.err = ""
    /\ Cardinality(Qualifying) > 20
    /\ HasCol(df, "Remarks")
    /\ Len(ReportedQuestions) = 20

\* the aggregate table drawn in the bar chart of a grouping dimension
BarTable(by) ==
    CASE by = "location" -> result.val.bar_location.data
      [] by = "position" -> result.val.bar_position.data
      [] by = "dept" -> result.val.bar_dept.data

\* m is the arithmetic mean of the scores of column col in the given rows
\* (missing when none of the rows has a score)
IsMeanOf(m, rows, col) ==
    LET scored == ScoresIn(rows, col)
    IN  IF scored = {} THEN m.nan
        ELSE /\ ~m.nan
             /\ m.den > 0
             /\ m.num * Cardinality(scored) = SumOver(scored, col) * m.den

\* C24: the aggregate table of a grouping dimension has a row for a group
\* value exactly when some row of the record set has that value, once, and
\* each mean in it is the arithmetic mean of that group's rows.
C24_GroupedMeansOfPresentGroups ==
    (result.op = "generate_visualizations" /\ result.err = "") =>
        \A by \in {"location", "position", "dept"} :
            LET table == BarTable(by)
            IN  /\ {table.groups[k] : k \in 1..Len(table.groups)} = GroupsOf(by)
                /\ Len(table.groups) = Cardinality(GroupsOf(by))
                /\ \A k \in 1..Len(table.groups) :
                   \A c \in 1..Len(table.columns) :
                      IsMeanOf(table.means[k][c],
                               RowsOfGroup(by, table.groups[k]), table.columns[c])

\* a record set in which nobody is in Ops: the dept table has Sales only,
\* with a mean over two rows that is not a whole number
C24_Witness ==
    /\ result.op = "generate_visualizations"
    /\ result.err = ""
    /\ result.val.bar_dept.data.groups = << Sales >>
    /\ \E c \in 1..Len(result.val.bar_dept.data.columns) :
          result.val.bar_dept.data.means[1][c].den = 2
    /\ \E i \in 1..Len(df.rows) : Column(df, "dept")[i].kind = "nan"

\* the section titles of a document, in order
TitlesOf(items) ==
    LET idx == SelectIdx([k \in 1..Len(items) |-> items[k].kind = "title"],
                         1, Len(items))
    IN  [k \in 1..Len(idx) |-> items[idx[k]].text]

SectionOrder ==
    << "Executive Summary", "Attrition Verdict Breakdown",
       "Survey Metric Correlations", "Survey Question Scores by Location",
       "Survey Question Scores by Position", "Survey Question Scores by Dept",
       "Alerts Summary" >>

\* the section of each chart artifact and the line that stands for it
PlaceholderOf ==
    [key \in {"verdict_pie", "heatmap", "bar_location", "bar_position", "bar_dept"} |->
        CASE key = "verdict_pie" ->
                << "Attrition Verdict Breakdown", "No verdict pie chart available." >>
          [] key = "heatmap" ->
                << "Survey Metric Correlations", "No correlation heatmap available." >>
          [] key = "bar_location" ->
                << "Survey Question Scores by Location", "No bar chart found for Location." >>
          [] key = "bar_position" ->
                << "Survey Question Scores by Position", "No bar chart found for Position." >>
          [] key = "bar_dept" ->
                << "Survey Question Scores by Dept", "No bar chart found for Dept." >>]

\* the document has every section in the fixed order and, for each artifact
\* that figs lacks, the placeholder line right under its section title
DegradesGracefully(pdf, figs) ==
    /\ ~pdf.isNone
    /\ TitlesOf(pdf.items) = SectionOrder
    /\ \A key \in DOMAIN PlaceholderOf \ DOMAIN figs :
          \E k \in 1..(Len(pdf.items) - 1) :
              /\ pdf.items[k].kind = "title"
              /\ pdf.items[k].text = PlaceholderOf[key][1]
              /\ pdf.items[k + 1].kind = "paragraph"
              /\ pdf.items[k + 1].text = PlaceholderOf[key][2]

\* C25: whichever chart artifacts are missing from figs, generate_pdf
\* produces a document with all sections in the fixed order and a
\* placeholder line in each section whose artifact is missing.
C25_MissingChartsDegrade ==
    result.op = "generate_pdf" => DegradesGracefully(result.val, result.arg.figs)

\* the same for calls whose pie, if any, is a Plotly figure
C25_DegradeWithPlotlyPie ==
    (/\ result.op = "generate_pdf"
     /\ ("verdict_pie" \in DOMAIN result.arg.figs
            => result.arg.figs["verdict_pie"].kind = "plotly"))
        => DegradesGracefully(result.val, result.arg.figs)

AnalyticsOps == {"get_question_columns", "generate_visualizations", "generate_alerts"}

\* C26: question_columns, the visualization computation and the alert
\* evaluation leave the record set they are given unchanged: same columns,
\* same rows, same values.
C26_RecordSetUnchanged ==
    [][result'.op \in AnalyticsOps => df' = df]_vars

\* a second run on the same record set returns what the first returned
C26_SameOutputsTwice ==
    [][(result.op \in AnalyticsOps /\ result'.op = result.op /\ result.err = "")
          => result'.val = result.val]_vars

\* C27: on a Trained service with only predict calls running, every call
\* that has finished holds the verdict (or error) predict_from_dict gives on
\* its input when run alone, and no step of a call changes the service state.
C27_ConcurrentPredictReadsOnly ==
    /\ [](\A t \in Callers :
             calls[t].pc = "done"
                => calls[t].outcome = PredictOutcome(df, fitted, calls[t].input_dict))
    /\ [][calls' # calls => (df' = df /\ fitted' = fitted)]_vars

\* two calls with different inputs have overlapped and both finished, one
\* with a verdict
C27_Witness ==
    /\ calls[1].pc = "done"
    /\ calls[2].pc = "done"
    /\ calls[1].input_dict # calls[2].input_dict
    /\ calls[1].outcome.err = ""
    /\ calls[2].outcome.err = "KeyError"

\* C28: in the survey session the number of stored responses is the current
\* question index and 0 <= current_q <= total; when no rerun is pending the
\* page reports completion exactly when current_q >= total; a selection
\* appends exactly the value of the chosen label, a rerun appends nothing,
\* and Start Over leaves current_q = 0, no responses and no question keys.
C28_SurveySessionConsistent ==
    /\ [](/\ Len(session_state.responses) = session_state.current_q
          /\ session_state.current_q \in 0..TotalQuestions
          /\ ~page.pending => (page.finished <=> session_state.current_q >= TotalQuestions))
    /\ [][/\ result'.op = "select"
             => session_state'.responses
                   = Append(session_state.responses, DictGet(options, result'.arg))
          /\ result'.op = "rerun"
             => session_state'.responses = session_state.responses
          /\ (result'.op = "start_over" /\ page'.pending)
             => /\ session_state'.current_q = 0
                /\ session_state'.responses = << >>
                /\ \A i \in QuestionKeys : session_state'.question[i] = "absent"]_vars

\* a completed survey has just been reset by Start Over
C28_Witness ==
    /\ result.op = "start_over"
    /\ page.pending
    /\ page.finished
    /\ session_state.current_q = 0

\* every question was answered and the page reports completion
C28_Completed ==
    /\ ~page.pending
    /\ page.finished
    /\ Len(session_state.responses) = TotalQuestions

\* what the claim compares of an alert: everything but the icon
AlertParts(alert) ==
    [dimension |-> alert.dimension, group |-> alert.group, label |-> alert.label,
     direction |-> alert.direction, score |-> alert.score]

\* the (dimension, rule label, group, formatted mean) of every message the
\* expanders show
ScreenFired(expanders) ==
    UNION { { [dimension |-> expanders[g].title,
               label     |-> expanders[g].messages[k].label,
               group     |-> expanders[g].messages[k].group,
               direction |-> IF expanders[g].messages[k].level = "error"
                             THEN "LOW" ELSE "HIGH",
               score     |-> expanders[g].messages[k].val] :
                k \in 1..Len(expanders[g].messages) } :
            g \in 1..Len(expanders) }

\* C29: on every record set the dashboard's export alert list holds the same
\* alerts as generate_alerts returns (dimension, group, rule label, direction
\* and formatted mean) in the same order, and the on-screen loop fires for
\* exactly the same (dimension, rule, group).
C29_AlertEvaluatorsAgree ==
    (result.op = "run_dashboard" /\ result.err = "")
        => LET backend == AlertLoop(df)
               export  == result.val.alert_list
           IN  /\ [k \in 1..Len(export) |-> AlertParts(export[k])]
                     = [k \in 1..Len(backend) |-> AlertParts(backend[k])]
               /\ ScreenFired(result.val.expanders)
                     = { AlertParts(backend[k]) : k \in 1..Len(backend) }
               /\ \A g \in 1..Len(result.val.expanders) :
                     result.val.expanders[g].info
                        <=> ~\E k \in 1..Len(backend) :
                               backend[k].dimension = result.val.expanders[g].title

\* the dashboard ran on a record set with a LOW and a HIGH alert and with
\* alerts in more than one grouping
C29_Witness ==
    /\ result.op = "run_dashboard"
    /\ result.err = ""
    /\ \E a, b \in 1..Len(result.val.alert_list) :
          /\ result.val.alert_list[a].direction = "LOW"
          /\ result.val.alert_list[b].direction = "HIGH"
    /\ \E a, b \in 1..Len(result.val.alert_list) :
          result.val.alert_list[a].dimension # result.val.alert_list[b].dimension

AllBase64(figs) == \A key \in DOMAIN figs : figs[key].kind = "base64"

\* C30: generate_pdf given figures that are all base64 text returns a
\* document, not None; on the dashboard's export, where the pie, the heatmap
\* and the three bar charts are base64 text, the download is offered.
C30_Base64FiguresGivePdf ==
    /\ (result.op = "generate_pdf" /\ AllBase64(result.arg.figs))
          => ~result.val.isNone
    /\ (result.op = "run_dashboard" /\ result.err = "")
          => (~result.val.pdf_bytes.isNone /\ result.val.download)

\* the dashboard's export ran with all five figures as base64 text
C30_ExportRan ==
    /\ result.op = "run_dashboard"
    /\ result.err = ""
    /\ DOMAIN result.val.figs
          = {"verdict_pie", "heatmap", "bar_location", "bar_position", "bar_dept"}
    /\ AllBase64(result.val.figs)

\* figures that are all base64 text and have no verdict pie give a document
C30_Base64WithoutPieGivesPdf ==
    (result.op = "generate_pdf" /\ AllBase64(result.arg.figs)
        /\ "verdict_pie" \notin DOMAIN result.arg.figs)
        => ~result.val.isNone

====
